---- MODULE Spec2Model ----
(***************************************************************************)
(* Model of BarLoggerStrategy (src/strategy.py): the per-symbol indicator  *)
(* state machines (_STState, _EMAState), the five-minute aggregator        *)
(* (_M5Bucket), the historical-bar callback, the timer-thread flush and    *)
(* the live-bar callback, together with the Redis keys and channels they   *)
(* write.                                                                  *)
(*                                                                         *)
(* Prices are integers in units of 0.0001, so round(x, 4) leaves them as   *)
(* they are; the divisions of the smoothing formulas are integer           *)
(* divisions.  Timestamps are UTC seconds (ts_event // 10^9) counted from  *)
(* the midnight before the session day.                                    *)
(*                                                                         *)
(* Engine callbacks (on_start, on_historical_data, on_bar) run on the one  *)
(* engine thread and never overlap each other.  _flush_history_for runs on *)
(* a threading.Timer thread of its own, with no lock, so its steps         *)
(* interleave with the engine's callbacks and with other timers.           *)
(*                                                                         *)
(* Not modelled: the DAY-bar branch of on_historical_data (it returns      *)
(* before the M1/M5 flow and writes only the prev_day key), the account    *)
(* and position callbacks, and logging.                                    *)
(***************************************************************************)
EXTENDS Integers, Sequences, FiniteSets, TLC

----------------------------------------------------------------------------
(* Bounds of the model *)

\* historical one-minute bars delivered per symbol
MaxHist == 2
\* live one-minute bars delivered in total
MaxLive == 2
\* the same two, when two instruments of the configuration share a symbol
\* (two flush timers run for that symbol)
MaxHistShared == 1
MaxLiveShared == 1
\* the same two, in the runs where the buffer outgrows the retention
MaxHistLong == 4
MaxLiveLong == 1
\* historical bars delivered in the runs that replay a history of many shapes
MaxFeed == 4
\* the same two, in the runs with quote ticks
MaxHistTick == 1
MaxHistPair == 1
MaxLivePair == 2
MaxLiveTick == 1
\* MAX_BARS, the retention of each Redis key, and the configured st_period and
\* ema_period (500, 10 and 21 in the source): scaled down so that a key is
\* truncated and the indicators finish their warm-up within the bars above
MAX_BARS == 2
StPeriod == 2
EmaPeriod == 2

----------------------------------------------------------------------------
(* Program constants and configuration *)

\* BarLoggerStrategyConfig.st_mult
StMult == 2
\* the value standing for Python's None in a numeric field
NoneNum == -1
\* the session's trading date, as a day number (on_start's `target`)
SessionDay == 1

Symbols == {"A", "B"}
InstrumentIds == {"A.X", "A.Y", "B.X"}

\* InstrumentId.symbol.value
SymOf(iid) == IF iid \in {"A.X", "A.Y"} THEN "A" ELSE "B"

----------------------------------------------------------------------------
(* Python containers *)

Max2(a, b) == IF a >= b THEN a ELSE b
Min2(a, b) == IF a <= b THEN a ELSE b

\* dict.get(k, default)
Get(d, k, default) == IF k \in DOMAIN d THEN d[k] ELSE default

\* d[k] = v
Put(d, k, v) == [x \in (DOMAIN d) \cup {k} |-> IF x = k THEN v ELSE d[x]]

\* the empty dict
EmptyDict == [x \in {} |-> 0]

\* a mutant of the retention slice: seq[:n], the oldest entries
FirstN(seq, n) ==
    IF Len(seq) <= n THEN seq ELSE SubSeq(seq, 1, n)

\* seq[-n:]
LastN(seq, n) ==
    IF Len(seq) <= n THEN seq ELSE SubSeq(seq, Len(seq) - n + 1, Len(seq))

RECURSIVE MaxHigh(_)
MaxHigh(bars) ==
    IF Len(bars) = 1 THEN bars[1].high
    ELSE Max2(bars[1].high, MaxHigh(Tail(bars)))

RECURSIVE MinLow(_)
MinLow(bars) ==
    IF Len(bars) = 1 THEN bars[1].low
    ELSE Min2(bars[1].low, MinLow(Tail(bars)))

RECURSIVE SumVolume(_)
SumVolume(bars) ==
    IF bars = <<>> THEN 0 ELSE bars[1].volume + SumVolume(Tail(bars))

----------------------------------------------------------------------------
(* Time *)

HMS(h, m, s) == h * 3600 + m * 60 + s

\* utcoffset of America/New_York on the session day (EDT)
UtcOffset(ts_utc) == 0 - 4 * 3600

\* _et_fake_utc: UTC seconds -> exchange-local wall clock encoded as UTC
EtFakeUtc(ts_utc) == ts_utc + UtcOffset(ts_utc)

\* a mutant of _is_rth: the open minute is excluded
IsRthOpenExcluded(et) ==
    LET et_minutes == (et % 86400) \div 60
    IN  (9 * 60 + 30) < et_minutes /\ et_minutes < (16 * 60)

\* a mutant of _is_rth: the closing minute is included
IsRthCloseIncluded(et) ==
    LET et_minutes == (et % 86400) \div 60
    IN  (9 * 60 + 30) <= et_minutes /\ et_minutes <= (16 * 60)

\* _is_rth: [09:30, 16:00) by hour and minute
IsRth(et) ==
    LET et_minutes == (et % 86400) \div 60
    IN  (9 * 60 + 30) <= et_minutes /\ et_minutes < (16 * 60)

\* on_bar's is_premarket
IsPremarket(et) ==
    ~IsRth(et) /\ ((et % 86400) \div 60) < (9 * 60 + 30)

\* bar_et_dt.date() of on_bar, as a day number
EtDate(ts_utc) == EtFakeUtc(ts_utc) \div 86400

----------------------------------------------------------------------------
(* AverageTrueRange(period, WILDER) as _STState uses it *)

NewAtr == [value |-> 0, count |-> 0, prev_close |-> 0]

AtrUpdateRaw(a, h, lo, c) ==
    LET pc == IF a.count = 0 THEN c ELSE a.prev_close
        tr == Max2(pc, h) - Min2(lo, pc)
        v0 == IF a.count = 0 THEN tr ELSE a.value
    IN  [value      |-> (tr + (StPeriod - 1) * v0) \div StPeriod,
         count      |-> a.count + 1,
         prev_close |-> c]

AtrInitialized(a) == a.count >= StPeriod

----------------------------------------------------------------------------
(* _STState *)

NewST ==
    [atr          |-> NewAtr,
     prev_close   |-> 0,
     prev_upper_b |-> 0,
     prev_lower_b |-> 0,
     prev_dir     |-> 1,
     initialized  |-> FALSE]

\* mutants of _STState.update: "bands" takes the basic bands on every bar,
\* "dir" flips the direction on a close beyond the previous bands' midpoint,
\* "warmup" reports the basic bands before the range is initialized
STUpdateMutant(st, o, h, lo, c, how) ==
    LET atr == AtrUpdateRaw(st.atr, h, lo, c)
        hl2         == (h + lo) \div 2
        basic_upper == hl2 + StMult * atr.value
        basic_lower == hl2 - StMult * atr.value
    IN
    IF ~AtrInitialized(atr)
    THEN [st  |-> [st EXCEPT !.atr = atr, !.prev_close = c],
          val |-> IF how = "warmup" THEN basic_lower ELSE 0,
          dir |-> 1,
          upper |-> IF how = "warmup" THEN basic_upper ELSE 0,
          lower |-> IF how = "warmup" THEN basic_lower ELSE 0]
    ELSE
      LET upper_b == IF ~st.initialized \/ how = "bands" THEN basic_upper
                     ELSE IF basic_upper < st.prev_upper_b
                             \/ st.prev_close > st.prev_upper_b
                          THEN basic_upper ELSE st.prev_upper_b
          lower_b == IF ~st.initialized \/ how = "bands" THEN basic_lower
                     ELSE IF basic_lower > st.prev_lower_b
                             \/ st.prev_close < st.prev_lower_b
                          THEN basic_lower ELSE st.prev_lower_b
          st_dir  == IF how = "dir"
                     THEN (IF c > hl2 THEN 1 ELSE -1)
                     ELSE IF st.prev_dir = -1 /\ c > upper_b THEN 1
                     ELSE IF st.prev_dir = 1 /\ c < lower_b THEN -1
                     ELSE st.prev_dir
          st_val  == IF st_dir = 1 THEN lower_b ELSE upper_b
      IN [st  |-> [atr          |-> atr,
                   prev_close   |-> c,
                   prev_upper_b |-> upper_b,
                   prev_lower_b |-> lower_b,
                   prev_dir     |-> st_dir,
                   initialized  |-> TRUE],
          val |-> st_val, dir |-> st_dir, upper |-> upper_b, lower |-> lower_b]

STUpdateBasicBands(st, o, h, lo, c) == STUpdateMutant(st, o, h, lo, c, "bands")
STUpdateMidpointDir(st, o, h, lo, c) == STUpdateMutant(st, o, h, lo, c, "dir")
STUpdateWarmupBands(st, o, h, lo, c) == STUpdateMutant(st, o, h, lo, c, "warmup")

\* _STState.update: the new state and the tuple it returns
STUpdate(st, o, h, lo, c) ==
    LET atr == AtrUpdateRaw(st.atr, h, lo, c) IN
    IF ~AtrInitialized(atr)
    THEN [st  |-> [st EXCEPT !.atr = atr, !.prev_close = c],
          val |-> 0, dir |-> 1, upper |-> 0, lower |-> 0]
    ELSE
      LET hl2         == (h + lo) \div 2
          basic_upper == hl2 + StMult * atr.value
          basic_lower == hl2 - StMult * atr.value
          upper_b == IF ~st.initialized THEN basic_upper
                     ELSE IF basic_upper < st.prev_upper_b
                             \/ st.prev_close > st.prev_upper_b
                          THEN basic_upper ELSE st.prev_upper_b
          lower_b == IF ~st.initialized THEN basic_lower
                     ELSE IF basic_lower > st.prev_lower_b
                             \/ st.prev_close < st.prev_lower_b
                          THEN basic_lower ELSE st.prev_lower_b
          st_dir  == IF st.prev_dir = -1 /\ c > upper_b THEN 1
                     ELSE IF st.prev_dir = 1 /\ c < lower_b THEN -1
                     ELSE st.prev_dir
          st_val  == IF st_dir = 1 THEN lower_b ELSE upper_b
      IN [st  |-> [atr          |-> atr,
                   prev_close   |-> c,
                   prev_upper_b |-> upper_b,
                   prev_lower_b |-> lower_b,
                   prev_dir     |-> st_dir,
                   initialized  |-> TRUE],
          val |-> st_val, dir |-> st_dir, upper |-> upper_b, lower |-> lower_b]

----------------------------------------------------------------------------
(* _EMAState over ExponentialMovingAverage(period) *)

NewEMA == [value |-> 0, count |-> 0]

\* a mutant of _EMAState.update: the value is reported one update later
EMAUpdateLate(e, close) ==
    LET v0 == IF e.count = 0 THEN close ELSE e.value
        v  == (2 * close + (EmaPeriod - 1) * v0) \div (EmaPeriod + 1)
        n  == e.count + 1
    IN  [ema |-> [value |-> v, count |-> n],
         out |-> IF n > EmaPeriod THEN v ELSE NoneNum]

\* _EMAState.update: the new state and the value it returns (NoneNum = None)
EMAUpdate(e, close) ==
    LET v0 == IF e.count = 0 THEN close ELSE e.value
        v  == (2 * close + (EmaPeriod - 1) * v0) \div (EmaPeriod + 1)
        n  == e.count + 1
    IN  [ema |-> [value |-> v, count |-> n],
         out |-> IF n >= EmaPeriod THEN v ELSE NoneNum]

----------------------------------------------------------------------------
(* data_feeder.py: the batch computations *)

RECURSIVE SumSeq(_)
SumSeq(xs) == IF xs = <<>> THEN 0 ELSE xs[1] + SumSeq(Tail(xs))

\* calc_ema(closes, period)[i - 1]: None before the period-th close, the SMA
\* of the first `period` closes at it, the recurrence after it
RECURSIVE CalcEmaAt(_, _, _)
CalcEmaAt(closes, period, i) ==
    IF Len(closes) < period \/ i < period THEN NoneNum
    ELSE IF i = period THEN SumSeq(SubSeq(closes, 1, period)) \div period
    ELSE (2 * closes[i] + (period - 1) * CalcEmaAt(closes, period, i - 1))
            \div (period + 1)

\* calc_ema
CalcEma(closes, period) ==
    [i \in 1..Len(closes) |-> CalcEmaAt(closes, period, i)]

Abs(x) == IF x < 0 THEN -x ELSE x

\* calc_atr: trs[i - 1], the true range of bar i against the close before it
CalcTr(bars, i) ==
    Max2(Max2(bars[i].high - bars[i].low, Abs(bars[i].high - bars[i - 1].close)),
         Abs(bars[i].low - bars[i - 1].close))

\* calc_atr(bars, period)[i - 1]: None up to the period-th bar, the mean of
\* the first `period` true ranges at bar period + 1, Wilder's recurrence after
RECURSIVE CalcAtrAt(_, _, _)
CalcAtrAt(bars, period, i) ==
    IF Len(bars) < period + 1 \/ i < period + 1 THEN NoneNum
    ELSE IF i = period + 1
         THEN SumSeq([j \in 1..period |-> CalcTr(bars, j + 1)]) \div period
    ELSE (CalcAtrAt(bars, period, i - 1) * (period - 1) + CalcTr(bars, i))
            \div period

\* calc_atr
CalcAtr(bars, period) ==
    [i \in 1..Len(bars) |-> CalcAtrAt(bars, period, i)]

\* the entry of calc_supertrend's lists for a bar without a value
NoSt == [upper |-> NoneNum, lower |-> NoneNum, dir |-> 0, value |-> NoneNum]

\* the loop body of calc_supertrend for bar i (index i - 1 of the lists) over
\* the smoothed-range series atrs: the first bar of the loop takes the basic
\* bands and the direction -1 unless its close is above the upper band
RECURSIVE SupertrendAt(_, _, _, _, _)
SupertrendAt(bars, atrs, period, multiplier, i) ==
    IF i < period + 1 \/ atrs[i] = NoneNum THEN NoSt
    ELSE
      LET hl2         == (bars[i].high + bars[i].low) \div 2
          basic_upper == hl2 + multiplier * atrs[i]
          basic_lower == hl2 - multiplier * atrs[i]
      IN
      IF i = period + 1
      THEN LET d == IF bars[i].close > basic_upper THEN 1 ELSE -1
           IN  [upper |-> basic_upper, lower |-> basic_lower, dir |-> d,
                value |-> IF d = 1 THEN basic_lower ELSE basic_upper]
      ELSE
        LET prev       == SupertrendAt(bars, atrs, period, multiplier, i - 1)
            prev_close == bars[i - 1].close
            upper == IF prev.upper # NoneNum
                     THEN (IF basic_upper < prev.upper \/ prev_close > prev.upper
                           THEN basic_upper ELSE prev.upper)
                     ELSE basic_upper
            lower == IF prev.lower # NoneNum
                     THEN (IF basic_lower > prev.lower \/ prev_close < prev.lower
                           THEN basic_lower ELSE prev.lower)
                     ELSE basic_lower
            d     == IF prev.dir = -1 /\ bars[i].close > upper THEN 1
                     ELSE IF prev.dir = 1 /\ bars[i].close < lower THEN -1
                     ELSE prev.dir
        IN  [upper |-> upper, lower |-> lower, dir |-> d,
             value |-> IF d = 1 THEN lower ELSE upper]

\* calc_supertrend over a given smoothed-range series
SupertrendOver(bars, atrs, period, multiplier) ==
    [i \in 1..Len(bars) |-> SupertrendAt(bars, atrs, period, multiplier, i)]

\* calc_supertrend
CalcSupertrend(bars, period, multiplier) ==
    SupertrendOver(bars, CalcAtr(bars, period), period, multiplier)

\* the AverageTrueRange of an _STState after the first i of the bars
RECURSIVE AtrAfter(_, _)
AtrAfter(bars, i) ==
    IF i = 0 THEN NewAtr
    ELSE AtrUpdateRaw(AtrAfter(bars, i - 1), bars[i].high, bars[i].low,
                      bars[i].close)

\* the values of self._atr that the updates of an _STState over the bars
\* read, None while it is not initialized
AtrSeries(bars) ==
    [i \in 1..Len(bars) |->
       IF AtrInitialized(AtrAfter(bars, i)) THEN AtrAfter(bars, i).value
       ELSE NoneNum]

\* sorted(buckets): the keys in increasing order
RECURSIVE SortedKeys(_)
SortedKeys(S) ==
    IF S = {} THEN << >>
    ELSE LET m == CHOOSE x \in S : \A y \in S : x <= y
         IN  << m >> \o SortedKeys(S \ {m})

\* aggregate_to_m5: the bars grouped by time - time % 300, one bar per group
\* in key order, the members of a group in input order
AggregateToM5(m1_bars) ==
    LET key(b)   == b.time - (b.time % 300)
        keys     == SortedKeys({key(m1_bars[i]) : i \in 1..Len(m1_bars)})
        chunk(t) == SelectSeq(m1_bars, LAMBDA b : key(b) = t)
    IN  [i \in 1..Len(keys) |->
           [time   |-> keys[i],
            open   |-> chunk(keys[i])[1].open,
            high   |-> MaxHigh(chunk(keys[i])),
            low    |-> MinLow(chunk(keys[i])),
            close  |-> chunk(keys[i])[Len(chunk(keys[i]))].close,
            volume |-> SumVolume(chunk(keys[i]))]]

----------------------------------------------------------------------------
(* _M5Bucket *)

NewBucket == [cur_bucket |-> -1, bars |-> <<>>]

BucketKey(t) == t - (t % 300)

\* a mutant of _M5Bucket._flush: the close is the first member's
BucketFlushFirstClose(bars) ==
    [time   |-> BucketKey(bars[1].time),
     open   |-> bars[1].open,
     high   |-> MaxHigh(bars),
     low    |-> MinLow(bars),
     close  |-> bars[1].close,
     volume |-> SumVolume(bars)]

\* _M5Bucket._flush: the aggregate of the open bucket's members
BucketFlush(bars) ==
    [time   |-> BucketKey(bars[1].time),
     open   |-> bars[1].open,
     high   |-> MaxHigh(bars),
     low    |-> MinLow(bars),
     close  |-> bars[Len(bars)].close,
     volume |-> SumVolume(bars)]

\* a mutant of _M5Bucket.push: the members of the sealed bucket are kept
BucketPushKeepMembers(bk, bar) ==
    LET bucket == BucketKey(bar.time)
        roll   == bk.cur_bucket # bucket
    IN  [bk  |-> [cur_bucket |-> bucket, bars |-> Append(bk.bars, bar)],
         out |-> IF roll /\ bk.bars # <<>> THEN <<BucketFlush(bk.bars)>> ELSE <<>>]

\* _M5Bucket.push: the new bucket and the sealed bar, <<>> for None
BucketPush(bk, bar) ==
    LET bucket == BucketKey(bar.time)
        roll   == bk.cur_bucket # bucket
    IN  [bk  |-> [cur_bucket |-> bucket,
                  bars       |-> IF roll THEN <<bar>> ELSE Append(bk.bars, bar)],
         out |-> IF roll /\ bk.bars # <<>> THEN <<BucketFlush(bk.bars)>> ELSE <<>>]

\* _M5Bucket.flush_current: the sealed bar, <<>> for None; the bucket is kept
BucketFlushCurrent(bk) ==
    IF bk.bars # <<>> THEN <<BucketFlush(bk.bars)>> ELSE <<>>

----------------------------------------------------------------------------
(* Inputs *)

\* exchange-local times of day a delivered bar may carry
Slots ==
    << HMS(9, 29, 59), HMS(9, 30, 0), HMS(9, 31, 0), HMS(9, 35, 0), HMS(16, 0, 0) >>

\* the slots of the historical replay (the session is still open)
HistSlots == 1..(Len(Slots) - 1)

\* ts_event // 10^9 of a bar at Slots[k] of the given day
TsOf(day, k) == day * 86400 + Slots[k] - UtcOffset(0)

\* prices and volume of a bar
Shapes ==
    << [open |-> 1000, high |-> 1040, low |-> 980,  close |-> 1020, volume |-> 10],
       [open |-> 1020, high |-> 1100, low |-> 1000, close |-> 1080, volume |-> 20] >>

\* a historical bar of slot k
HistBar(k) ==
    [ts |-> TsOf(SessionDay, k), open |-> Shapes[1].open, high |-> Shapes[1].high,
     low |-> Shapes[1].low, close |-> Shapes[1].close, volume |-> Shapes[1].volume]

\* the n-th live bar carries other prices than the one before it and than
\* the historical bars
LiveShape(n) == 2 - (n % 2)

\* a live bar of slot k with the prices of shape j, dated `day`
LiveBar(day, k, j) ==
    [ts |-> TsOf(day, k), open |-> Shapes[j].open, high |-> Shapes[j].high,
     low |-> Shapes[j].low, close |-> Shapes[j].close, volume |-> Shapes[j].volume]

\* what a try-block of Redis calls may do: all succeed, the read or the write
\* raises (nothing is written), or the publish raises (written, not published)
RedisOutcomes == {"ok", "set_err", "pub_err"}

\* a series left under the Redis keys by an earlier session
StaleSeries ==
    << [time |-> HMS(15, 59, 0), open |-> 900, high |-> 900, low |-> 900,
        close |-> 900, volume |-> 1, ema21 |-> 900, st_value |-> 0, st_dir |-> 1,
        st_upper |-> 0, st_lower |-> 0] >>

\* a series of MAX_BARS entries left under the Redis keys by an earlier session
StaleFull ==
    [i \in 1..MAX_BARS |->
       [StaleSeries[1] EXCEPT !.time = HMS(15, 59, 0) - 60 * (MAX_BARS - i)]]

\* the configurations of the strategy
Configs ==
    { [instrument_id |-> "A.X", instrument_ids |-> <<>>,      backtest_mode |-> FALSE],
      [instrument_id |-> "A.X", instrument_ids |-> <<>>,      backtest_mode |-> TRUE],
      [instrument_id |-> "A.X", instrument_ids |-> <<"A.Y">>, backtest_mode |-> FALSE] }

----------------------------------------------------------------------------
(* State *)

VARIABLES
    config,         \* BarLoggerStrategyConfig
    started,        \* on_start has run
    stopped,        \* on_stop has run
    redis,          \* self._redis is not None
    today_et_date,  \* self._today_et_date (NoneNum before on_start)
    hist_flushed,   \* self._hist_flushed
    bar_types,      \* self._bar_types (the instrument id of the bar type)
    st_m1, ema_m1,  \* self._st_m1, self._ema_m1
    st_m5, ema_m5,  \* self._st_m5, self._ema_m5
    m5_bucket,      \* self._m5_bucket
    hist_m1,        \* self._hist_m1
    hist_m5,        \* self._hist_m5
    cur_bar,        \* self._cur_bar (<<>> for None)
    nh_state,       \* self._nh_state
    bar_count,      \* self._bar_count
    store1, store5, \* Redis keys bars:1m:{sym}, bars:5m:{sym}
    chan1, chan5,   \* payloads published on kline:1m:{sym}, kline:5m:{sym}
    bar_subs,       \* subscribe_bars calls made, per symbol
    timers,         \* the threading.Timer threads of on_start
    eng,            \* the engine callback in progress (<<>> when idle)
    lim,            \* how many bars the data source delivers in this run
    hist_slot,      \* slot of the last historical bar delivered, per symbol
    live_slot,      \* slot of the last live bar delivered, per symbol
    calls,          \* write and publish attempts on the series keys and channels
    tick_subs,      \* subscribe_quote_ticks calls made, per symbol
    tick_pub,       \* the last payload published on bars:1m:tick:{sym} (<<>>: none)
    fed1,           \* the bars given to the M1 state machines (time, live or not)
    sealed5,        \* the buckets given to the M5 state machines (key, sealed by)
    exit_started,   \* ExitManager.on_start has subscribed its handlers
    st_trail_active,\* ExitManager._st_trail_active
    positions,      \* cache.positions_open(): (instrument_id, is_long) of each
    exit_orders,    \* the close orders ExitManager has submitted, with their bar
    gw_state,       \* OrderGatewayActor: "init", "running" or "stopped"
    sl_tasks,       \* OrderGatewayActor._sl_tasks (ids of loop_tasks)
    loop_tasks,     \* the asyncio tasks of _schedule_sl_modify
    cache_orders,   \* cache.order(): status of each stop order known to the cache
    modifies,       \* the modify_order requests issued
    now             \* the clock of the event loop, in seconds

cfgVars   == << config, started, stopped, redis, today_et_date, bar_types >>
indVars   == << st_m1, ema_m1, st_m5, ema_m5, m5_bucket >>
histVars  == << hist_m1, hist_m5 >>
liveVars  == << cur_bar, nh_state, bar_count >>
sinkVars  == << store1, store5, chan1, chan5, calls >>
envVars   == << lim, hist_slot, live_slot >>
tickVars  == << tick_subs, tick_pub >>
exitVars  == << exit_started, st_trail_active, positions, exit_orders >>
gwVars    == << gw_state, sl_tasks, loop_tasks, cache_orders, modifies, now >>
actorVars == << exitVars, gwVars >>
vars == << cfgVars, indVars, histVars, liveVars, sinkVars, envVars, tickVars,
           hist_flushed, bar_subs, timers, eng, fed1, sealed5, actorVars >>

NoCalls == [set1 |-> 0, set5 |-> 0, pub1 |-> 0, pub5 |-> 0]

\* the state after construction, but for the configuration, the number of
\* bars the data source delivers and what the Redis keys hold
InitRest ==
    /\ started = FALSE
    /\ stopped = FALSE
    /\ redis = FALSE
    /\ today_et_date = NoneNum
    /\ hist_flushed = EmptyDict
    /\ bar_types = EmptyDict
    /\ st_m1 = EmptyDict /\ ema_m1 = EmptyDict
    /\ st_m5 = EmptyDict /\ ema_m5 = EmptyDict
    /\ m5_bucket = EmptyDict
    /\ hist_m1 = EmptyDict /\ hist_m5 = EmptyDict
    /\ cur_bar = [s \in Symbols |-> <<>>]
    /\ nh_state = EmptyDict
    /\ bar_count = 0
    /\ chan1 = [s \in Symbols |-> <<>>]
    /\ chan5 = [s \in Symbols |-> <<>>]
    /\ bar_subs = [s \in Symbols |-> 0]
    /\ timers = <<>>
    /\ eng = <<>>
    /\ hist_slot = [s \in Symbols |-> 0]
    /\ live_slot = [s \in Symbols |-> 0]
    /\ calls = [s \in Symbols |-> NoCalls]
    /\ fed1 = [s \in Symbols |-> <<>>]
    /\ sealed5 = [s \in Symbols |-> <<>>]
    /\ tick_subs = [s \in Symbols |-> 0]
    /\ tick_pub = [s \in Symbols |-> <<>>]
    /\ exit_started = FALSE
    /\ st_trail_active = EmptyDict
    /\ positions = {}
    /\ exit_orders = <<>>
    /\ gw_state = "init"
    /\ sl_tasks = <<>>
    /\ loop_tasks = <<>>
    /\ cache_orders = EmptyDict
    /\ modifies = <<>>
    /\ now = 0

Init ==
    /\ config \in Configs
    /\ lim = IF Len(config.instrument_ids) > 0
             THEN [hist |-> MaxHistShared, live |-> MaxLiveShared]
             ELSE [hist |-> MaxHist, live |-> MaxLive]
    /\ \E old \in {StaleSeries} :
          /\ store1 = [s \in Symbols |-> old]
          /\ store5 = [s \in Symbols |-> old]
    /\ InitRest

----------------------------------------------------------------------------
(* on_start *)

\* _all_instrument_ids
AllInstrumentIds(cfg) ==
    LET ids0 == IF cfg.instrument_ids = <<>> THEN << cfg.instrument_id >>
                ELSE cfg.instrument_ids
        has  == \E i \in 1..Len(ids0) : ids0[i] = cfg.instrument_id
    IN  IF has THEN ids0 ELSE << cfg.instrument_id >> \o ids0

\* a mutant of on_start: the live bars are subscribed at start
StartSubsAtOnce(syms) == [s \in Symbols |-> IF s \in syms THEN 1 ELSE 0]

\* the live-bar subscriptions on_start makes for the symbols it sets up: none
\* (it requests history, subscribes quote ticks and arms the flush timer)
StartSubs(syms) == bar_subs

\* on_start: connect Redis, fix the session date, and per instrument create the
\* state machines, request the history and arm the flush timer
OnStart ==
    /\ ~started
    /\ started' = TRUE
    /\ redis' \in BOOLEAN
    /\ today_et_date' = SessionDay
    /\ LET ids  == AllInstrumentIds(config)
           syms == { SymOf(ids[i]) : i \in 1..Len(ids) }
           last(s) == CHOOSE i \in 1..Len(ids) :
                         /\ SymOf(ids[i]) = s
                         /\ \A j \in 1..Len(ids) : SymOf(ids[j]) = s => j <= i
       IN  /\ st_m1'     = [s \in syms |-> NewST]
           /\ ema_m1'    = [s \in syms |-> NewEMA]
           /\ st_m5'     = [s \in syms |-> NewST]
           /\ ema_m5'    = [s \in syms |-> NewEMA]
           /\ m5_bucket' = [s \in syms |-> NewBucket]
           /\ bar_types' = [s \in syms |-> ids[last(s)]]
           /\ timers'    = [i \in 1..Len(ids) |->
                              [sym |-> SymOf(ids[i]), pc |-> "armed",
                               alias |-> FALSE, m5_bars |-> <<>>]]
           /\ bar_subs'  = StartSubs(syms)
           /\ tick_subs' = IF config.backtest_mode THEN tick_subs
                           ELSE [s \in Symbols |->
                                   Cardinality({i \in 1..Len(ids) : SymOf(ids[i]) = s})]
    /\ UNCHANGED << actorVars, config, stopped, histVars, liveVars, sinkVars, envVars,
                    hist_flushed, eng, fed1, sealed5, tick_pub >>

----------------------------------------------------------------------------
(* on_historical_data *)

\* the enriched bar dict of on_historical_data
HistBarDict(b, et, u, e) ==
    [time |-> et, open |-> b.open, high |-> b.high, low |-> b.low,
     close |-> b.close, volume |-> b.volume, ema21 |-> e.out,
     st_value |-> u.val, st_dir |-> u.dir, st_upper |-> u.upper,
     st_lower |-> u.lower]

\* a sealed M5 bar with the indicator fields of the M5 state machines
M5BarDict(m5_out, u, e) ==
    [time |-> m5_out.time, open |-> m5_out.open, high |-> m5_out.high,
     low |-> m5_out.low, close |-> m5_out.close, volume |-> m5_out.volume,
     ema21 |-> e.out, st_value |-> u.val, st_dir |-> u.dir,
     st_upper |-> u.upper, st_lower |-> u.lower]

\* on_historical_data, M1 part: update the M1 state machines with the bar and
\* append the enriched bar to the buffer
OnHistoricalData(s, k) ==
    /\ started
    /\ ~stopped
    /\ eng = <<>>
    /\ s \in DOMAIN bar_types
    /\ k \in HistSlots
    /\ k > hist_slot[s]
    /\ Len(Get(hist_m1, s, <<>>)) < lim.hist
    /\ LET b  == HistBar(k)
           et == EtFakeUtc(b.ts)
           u  == STUpdate(st_m1[s], b.open, b.high, b.low, b.close)
           e  == EMAUpdate(ema_m1[s], b.close)
           bar_dict == HistBarDict(b, et, u, e)
       IN  /\ st_m1'  = [st_m1 EXCEPT ![s] = u.st]
           /\ ema_m1' = [ema_m1 EXCEPT ![s] = e.ema]
           /\ hist_m1' = Put(hist_m1, s, Append(Get(hist_m1, s, <<>>), bar_dict))
           /\ fed1' = [fed1 EXCEPT ![s] = Append(@, [time |-> et, live |-> FALSE])]
           /\ eng' = << [sym |-> s, bar |-> bar_dict] >>
    /\ hist_slot' = [hist_slot EXCEPT ![s] = k]
    /\ UNCHANGED << cfgVars, actorVars, st_m5, ema_m5, m5_bucket, hist_m5, liveVars, sinkVars,
                    lim, live_slot, hist_flushed, bar_subs, timers, sealed5 >>
    /\ UNCHANGED tickVars

\* on_historical_data, M5 part: push the bar into the bucket and buffer the
\* M5 bar the push seals, if any
OnHistoricalDataM5 ==
    /\ eng # <<>>
    /\ LET s  == eng[1].sym
           p  == BucketPush(m5_bucket[s], eng[1].bar)
           s5 == IF s \in DOMAIN st_m5 THEN st_m5[s] ELSE NewST
           e5 == IF s \in DOMAIN st_m5 THEN ema_m5[s] ELSE NewEMA
       IN  /\ m5_bucket' = [m5_bucket EXCEPT ![s] = p.bk]
           /\ IF p.out # <<>>
              THEN LET m5_out == p.out[1]
                       u == STUpdate(s5, m5_out.open, m5_out.high, m5_out.low,
                                     m5_out.close)
                       e == EMAUpdate(e5, m5_out.close)
                   IN  /\ st_m5'  = Put(st_m5, s, u.st)
                       /\ ema_m5' = Put(ema_m5, s, e.ema)
                       /\ hist_m5' = Put(hist_m5, s,
                                         Append(Get(hist_m5, s, <<>>),
                                                M5BarDict(m5_out, u, e)))
                       /\ sealed5' = [sealed5 EXCEPT ![s] =
                                         Append(@, [key |-> m5_out.time, by |-> "hist"])]
              ELSE UNCHANGED << st_m5, ema_m5, hist_m5, sealed5 >>
    /\ eng' = <<>>
    /\ UNCHANGED << cfgVars, actorVars, st_m1, ema_m1, hist_m1, liveVars, sinkVars, envVars,
                    hist_flushed, bar_subs, timers, fed1 >>
    /\ UNCHANGED tickVars

----------------------------------------------------------------------------
(* _flush_history_for, on a timer thread *)

TimerIds == DOMAIN timers

SetPc(t, pc) == [timers EXCEPT ![t].pc = pc]

\* a mutant of the guard: the flag is not consulted
FlushGuardIgnored(s) == FALSE

\* the guard of _flush_history_for: self._hist_flushed.get(sym)
FlushGuard(s) == Get(hist_flushed, s, FALSE)

\* the timer fires and the guard is read: return if the symbol is flushed
FlushCheck(t) ==
    /\ t \in TimerIds
    /\ timers[t].pc = "armed"
    /\ timers' = SetPc(t, IF FlushGuard(timers[t].sym) THEN "skipped" ELSE "set")
    /\ UNCHANGED << cfgVars, actorVars, indVars, histVars, liveVars, sinkVars, envVars,
                    hist_flushed, bar_subs, eng, fed1, sealed5 >>
    /\ UNCHANGED tickVars

\* a mutant of the flush: the flag is set for every symbol
FlushSetAll(t) ==
    /\ t \in TimerIds
    /\ timers[t].pc = "set"
    /\ hist_flushed' = [s \in Symbols |-> TRUE]
    /\ timers' = SetPc(t, IF Get(hist_m1, timers[t].sym, <<>>) = <<>> \/ ~redis
                          THEN "sub" ELSE "m1")
    /\ UNCHANGED << cfgVars, actorVars, indVars, histVars, liveVars, sinkVars, envVars,
                    bar_subs, eng, fed1, sealed5 >>
    /\ UNCHANGED tickVars

\* a mutant of the flush: the live bars are subscribed before the writes
FlushSetSubscribing(t) ==
    /\ t \in TimerIds
    /\ timers[t].pc = "set"
    /\ hist_flushed' = Put(hist_flushed, timers[t].sym, TRUE)
    /\ timers' = SetPc(t, IF Get(hist_m1, timers[t].sym, <<>>) = <<>> \/ ~redis
                          THEN "sub" ELSE "m1")
    /\ bar_subs' = [bar_subs EXCEPT ![timers[t].sym] = @ + 1]
    /\ UNCHANGED << cfgVars, actorVars, indVars, histVars, liveVars, sinkVars, envVars,
                    eng, fed1, sealed5 >>
    /\ UNCHANGED tickVars

\* the flag is set; with no buffered bar or no Redis the writes are skipped
FlushSet(t) ==
    /\ t \in TimerIds
    /\ timers[t].pc = "set"
    /\ hist_flushed' = Put(hist_flushed, timers[t].sym, TRUE)
    /\ timers' = SetPc(t, IF Get(hist_m1, timers[t].sym, <<>>) = <<>> \/ ~redis
                          THEN "sub" ELSE "m1")
    /\ UNCHANGED << cfgVars, actorVars, indVars, histVars, liveVars, sinkVars, envVars,
                    bar_subs, eng, fed1, sealed5 >>
    /\ UNCHANGED tickVars

\* step 1: the RTH bars of the buffer overwrite bars:1m:{sym}
FlushM1(t) ==
    /\ t \in TimerIds
    /\ timers[t].pc = "m1"
    /\ LET s      == timers[t].sym
           rth_m1 == SelectSeq(hist_m1[s], LAMBDA b : IsRth(b.time))
       IN  /\ \E ok \in BOOLEAN :
                store1' = IF ok THEN [store1 EXCEPT ![s] = LastN(rth_m1, MAX_BARS)]
                          ELSE store1
           /\ calls' = [calls EXCEPT ![s].set1 = @ + 1]
    /\ timers' = SetPc(t, "seal")
    /\ UNCHANGED << cfgVars, actorVars, indVars, histVars, liveVars, store5, chan1, chan5,
                    envVars, hist_flushed, bar_subs, eng, fed1, sealed5 >>
    /\ UNCHANGED tickVars

\* step 2: the open bucket is force-sealed and run through the M5 state machines
FlushSeal(t) ==
    /\ t \in TimerIds
    /\ timers[t].pc = "seal"
    /\ LET s       == timers[t].sym
           alias   == s \in DOMAIN hist_m5
           last_m5 == BucketFlushCurrent(m5_bucket[s])
       IN  IF last_m5 # <<>>
           THEN LET u == STUpdate(st_m5[s], last_m5[1].open, last_m5[1].high,
                                  last_m5[1].low, last_m5[1].close)
                    e == EMAUpdate(ema_m5[s], last_m5[1].close)
                    m5_bar == M5BarDict(last_m5[1], u, e)
                IN  /\ st_m5'  = [st_m5 EXCEPT ![s] = u.st]
                    /\ ema_m5' = [ema_m5 EXCEPT ![s] = e.ema]
                    /\ sealed5' = [sealed5 EXCEPT ![s] =
                                      Append(@, [key |-> last_m5[1].time, by |-> "flush"])]
                    /\ hist_m5' = IF alias
                                  THEN [hist_m5 EXCEPT ![s] = Append(@, m5_bar)]
                                  ELSE hist_m5
                    /\ timers' = [timers EXCEPT
                                    ![t].pc = "m5w", ![t].alias = alias,
                                    ![t].m5_bars = IF alias THEN <<>> ELSE <<m5_bar>>]
           ELSE /\ timers' = [timers EXCEPT ![t].pc = "m5w", ![t].alias = alias]
                /\ UNCHANGED << st_m5, ema_m5, sealed5, hist_m5 >>
    /\ UNCHANGED << cfgVars, actorVars, st_m1, ema_m1, m5_bucket, hist_m1, liveVars, sinkVars,
                    envVars, hist_flushed, bar_subs, eng, fed1 >>
    /\ UNCHANGED tickVars

\* step 3: the RTH bars of the M5 list overwrite bars:5m:{sym}
FlushM5Write(t) ==
    /\ t \in TimerIds
    /\ timers[t].pc = "m5w"
    /\ LET s       == timers[t].sym
           m5_bars == IF timers[t].alias THEN hist_m5[s] ELSE timers[t].m5_bars
           rth_m5  == SelectSeq(m5_bars, LAMBDA b : IsRth(b.time))
       IN  /\ \E ok \in BOOLEAN :
                store5' = IF ok THEN [store5 EXCEPT ![s] = LastN(rth_m5, MAX_BARS)]
                          ELSE store5
           /\ calls' = [calls EXCEPT ![s].set5 = @ + 1]
    /\ timers' = SetPc(t, "sub")
    /\ UNCHANGED << cfgVars, actorVars, indVars, histVars, liveVars, store1, chan1, chan5,
                    envVars, hist_flushed, bar_subs, eng, fed1, sealed5 >>
    /\ UNCHANGED tickVars

\* a mutant of step 4: nothing is subscribed
FlushSubNothing(t) ==
    /\ t \in TimerIds
    /\ timers[t].pc = "sub"
    /\ timers' = SetPc(t, "done")
    /\ UNCHANGED << cfgVars, actorVars, indVars, histVars, liveVars, sinkVars, envVars,
                    hist_flushed, bar_subs, eng, fed1, sealed5 >>
    /\ UNCHANGED tickVars

\* step 4: in live mode the live bars of the symbol are subscribed
FlushSub(t) ==
    /\ t \in TimerIds
    /\ timers[t].pc = "sub"
    /\ bar_subs' = IF ~config.backtest_mode /\ timers[t].sym \in DOMAIN bar_types
                   THEN [bar_subs EXCEPT ![timers[t].sym] = @ + 1]
                   ELSE bar_subs
    /\ timers' = SetPc(t, "done")
    /\ UNCHANGED << cfgVars, actorVars, indVars, histVars, liveVars, sinkVars, envVars,
                    hist_flushed, eng, fed1, sealed5 >>
    /\ UNCHANGED tickVars

----------------------------------------------------------------------------
(* _process_m5_bar *)

\* the new-high counter of _process_m5_bar
NhNext(s, c) ==
    LET nh == Get(nh_state, s, <<>>) IN
    IF nh = <<>> \/ nh[1].date # today_et_date
    THEN << [date |-> today_et_date, day_high |-> c, count |-> 1] >>
    ELSE IF c > nh[1].day_high
         THEN << [nh[1] EXCEPT !.day_high = c, !.count = @ + 1] >>
         ELSE << [nh[1] EXCEPT !.count = 0] >>

\* a mutant of _process_m5_bar: the bar is published twice
ProcessM5BarPublishTwice(s, m5_raw, publish, r) ==
    LET s5 == IF s \in DOMAIN st_m5 THEN st_m5[s] ELSE NewST
        e5 == IF s \in DOMAIN st_m5 THEN ema_m5[s] ELSE NewEMA
        u  == STUpdate(s5, m5_raw.open, m5_raw.high, m5_raw.low, m5_raw.close)
        e  == EMAUpdate(e5, m5_raw.close)
        nh == NhNext(s, m5_raw.close)
        m5_bar == [time |-> m5_raw.time, open |-> m5_raw.open, high |-> m5_raw.high,
                   low |-> m5_raw.low, close |-> m5_raw.close,
                   volume |-> m5_raw.volume, ema21 |-> e.out, st_value |-> u.val,
                   st_dir |-> u.dir, st_upper |-> u.upper, st_lower |-> u.lower,
                   nh_score |-> nh[1].count]
        wrote == redis /\ r \in {"ok", "pub_err"}
    IN  [st_m5    |-> Put(st_m5, s, u.st),
         ema_m5   |-> Put(ema_m5, s, e.ema),
         nh_state |-> Put(nh_state, s, nh),
         store5   |-> IF wrote
                      THEN [store5 EXCEPT ![s] = LastN(Append(@, m5_bar), MAX_BARS)]
                      ELSE store5,
         chan5    |-> IF wrote /\ publish /\ r = "ok"
                      THEN [chan5 EXCEPT ![s] = Append(Append(@, m5_bar), m5_bar)]
                      ELSE chan5,
         set5     |-> IF redis THEN 1 ELSE 0,
         pub5     |-> IF wrote /\ publish THEN 2 ELSE 0]

\* a mutant of _process_m5_bar: the M5 state machines are created anew
ProcessM5BarFresh(s, m5_raw, publish, r) ==
    LET u  == STUpdate(NewST, m5_raw.open, m5_raw.high, m5_raw.low, m5_raw.close)
        e  == EMAUpdate(NewEMA, m5_raw.close)
        nh == NhNext(s, m5_raw.close)
        m5_bar == [time |-> m5_raw.time, open |-> m5_raw.open, high |-> m5_raw.high,
                   low |-> m5_raw.low, close |-> m5_raw.close,
                   volume |-> m5_raw.volume, ema21 |-> e.out, st_value |-> u.val,
                   st_dir |-> u.dir, st_upper |-> u.upper, st_lower |-> u.lower,
                   nh_score |-> nh[1].count]
        wrote == redis /\ r \in {"ok", "pub_err"}
    IN  [st_m5    |-> Put(st_m5, s, u.st),
         ema_m5   |-> Put(ema_m5, s, e.ema),
         nh_state |-> Put(nh_state, s, nh),
         store5   |-> IF wrote
                      THEN [store5 EXCEPT ![s] = LastN(Append(@, m5_bar), MAX_BARS)]
                      ELSE store5,
         chan5    |-> IF wrote /\ publish /\ r = "ok"
                      THEN [chan5 EXCEPT ![s] = Append(@, m5_bar)]
                      ELSE chan5,
         set5     |-> IF redis THEN 1 ELSE 0,
         pub5     |-> IF wrote /\ publish THEN 1 ELSE 0]

\* _process_m5_bar(sym, m5_raw, publish) with Redis outcome r: what it leaves
\* in the M5 state machines, the new-high state, bars:5m and kline:5m
ProcessM5Bar(s, m5_raw, publish, r) ==
    LET s5 == IF s \in DOMAIN st_m5 THEN st_m5[s] ELSE NewST
        e5 == IF s \in DOMAIN st_m5 THEN ema_m5[s] ELSE NewEMA
        u  == STUpdate(s5, m5_raw.open, m5_raw.high, m5_raw.low, m5_raw.close)
        e  == EMAUpdate(e5, m5_raw.close)
        nh == NhNext(s, m5_raw.close)
        m5_bar == [time |-> m5_raw.time, open |-> m5_raw.open, high |-> m5_raw.high,
                   low |-> m5_raw.low, close |-> m5_raw.close,
                   volume |-> m5_raw.volume, ema21 |-> e.out, st_value |-> u.val,
                   st_dir |-> u.dir, st_upper |-> u.upper, st_lower |-> u.lower,
                   nh_score |-> nh[1].count]
        wrote == redis /\ r \in {"ok", "pub_err"}
    IN  [st_m5    |-> Put(st_m5, s, u.st),
         ema_m5   |-> Put(ema_m5, s, e.ema),
         nh_state |-> Put(nh_state, s, nh),
         store5   |-> IF wrote
                      THEN [store5 EXCEPT ![s] = LastN(Append(@, m5_bar), MAX_BARS)]
                      ELSE store5,
         chan5    |-> IF wrote /\ publish /\ r = "ok"
                      THEN [chan5 EXCEPT ![s] = Append(@, m5_bar)]
                      ELSE chan5,
         set5     |-> IF redis THEN 1 ELSE 0,
         pub5     |-> IF wrote /\ publish THEN 1 ELSE 0]

----------------------------------------------------------------------------
(* on_bar *)

\* the bar dict of on_bar
LiveBarDict(s, b, et, u, e) ==
    [symbol |-> s, time |-> et, open |-> b.open, high |-> b.high, low |-> b.low,
     close |-> b.close, volume |-> b.volume, ema21 |-> e.out,
     st_value |-> u.val, st_dir |-> u.dir, st_upper |-> u.upper,
     st_lower |-> u.lower]

\* a mutant of the upsert: the bar is always appended
UpsertAlwaysAppend(all, bar_dict) ==
    LastN(Append(all, bar_dict), MAX_BARS)

\* the upsert of on_bar into the list read from bars:1m:{sym}
Upsert(all, bar_dict) ==
    LET merged == IF all # <<>> /\ all[Len(all)].time = bar_dict.time
                  THEN [all EXCEPT ![Len(all)] = bar_dict]
                  ELSE Append(all, bar_dict)
    IN  LastN(merged, MAX_BARS)

\* a mutant of the date filter: every date passes
OtherDateIgnored(ts) == FALSE

\* the date filter of on_bar
OtherDate(ts) == today_et_date # NoneNum /\ EtDate(ts) # today_et_date

\* bar_dict_with_id of on_bar: the bar dict and the configured instrument
BarDictWithId(bar_dict) ==
    [x \in (DOMAIN bar_dict) \cup {"instrument_id"} |->
        IF x = "instrument_id" THEN config.instrument_id ELSE bar_dict[x]]

\* the fallback instrument of _on_bar_collected: f"{sym}.NASDAQ"
NasdaqId(sym) == IF sym = "A" THEN "A.NASDAQ" ELSE "B.NASDAQ"

\* the exit test of ExitManager._on_bar_collected for one position
ShouldExit(is_long, c, st_val, st_dir) ==
    IF is_long THEN c < st_val \/ st_dir = -1
    ELSE c > st_val \/ st_dir = 1

\* ExitManager._close_position: the market order on the position's
\* instrument, with the event that caused it
CloseOrder(instrument_id, is_long, sym, bar) ==
    [instrument_id |-> instrument_id,
     order_side    |-> IF is_long THEN "SELL" ELSE "BUY",
     symbol        |-> sym,
     bar           |-> bar]

\* ExitManager._on_bar_collected, as msgbus.publish calls it from on_bar:
\* the orders it submits for the event (sym, bar)
OnBarCollected(sym, bar) ==
    IF ~exit_started \/ ~Get(st_trail_active, sym, FALSE) THEN <<>>
    ELSE
      LET instrument_id == IF "instrument_id" \in DOMAIN bar THEN bar.instrument_id
                           ELSE NasdaqId(sym)
          closes(is_long) ==
              IF /\ [instrument_id |-> instrument_id, is_long |-> is_long] \in positions
                 /\ ShouldExit(is_long, bar.close, bar.st_value, bar.st_dir)
              THEN << CloseOrder(instrument_id, is_long, sym, bar) >>
              ELSE <<>>
      IN  closes(TRUE) \o closes(FALSE)

\* on_bar for the live bar b of symbol s; r1 and r5 are what the Redis calls
\* of the M1 write and of _process_m5_bar do
OnBarDo(s, b, r1, r5) ==
    LET et     == EtFakeUtc(b.ts)
        is_rth == IsRth(et)
        is_premarket == IsPremarket(et)
        skip   == OtherDate(b.ts) \/ (~is_rth /\ ~is_premarket)
        s1 == IF s \in DOMAIN st_m1 THEN st_m1[s] ELSE NewST
        e1 == IF s \in DOMAIN st_m1 THEN ema_m1[s] ELSE NewEMA
        u  == STUpdate(s1, b.open, b.high, b.low, b.close)
        e  == EMAUpdate(e1, b.close)
        bar_dict == LiveBarDict(s, b, et, u, e)
        has_bucket == s \in DOMAIN m5_bucket
        p  == BucketPush(m5_bucket[s], bar_dict)
        sealed == has_bucket /\ p.out # <<>>
        m  == ProcessM5Bar(s, p.out[1], TRUE, r5)
        wrote == redis /\ r1 \in {"ok", "pub_err"}
    IN
    /\ r1 # "ok" => (~skip /\ is_rth /\ redis)
    /\ r5 # "ok" => (~skip /\ is_rth /\ redis /\ sealed)
    /\ bar_count' = bar_count + 1
    /\ exit_orders' = IF ~skip /\ ~is_premarket /\ redis /\ r1 = "ok"
                      THEN exit_orders \o OnBarCollected(s, BarDictWithId(bar_dict))
                      ELSE exit_orders
    /\ UNCHANGED << exit_started, st_trail_active, positions >>
    /\ IF skip
       THEN UNCHANGED << indVars, cur_bar, nh_state, sinkVars, fed1, sealed5 >>
       ELSE
         /\ st_m1'  = Put(st_m1, s, u.st)
         /\ ema_m1' = Put(ema_m1, s, e.ema)
         /\ fed1'   = [fed1 EXCEPT ![s] = Append(@, [time |-> et, live |-> TRUE])]
         /\ cur_bar' = [cur_bar EXCEPT ![s] = <<>>]
         /\ IF is_premarket
            THEN UNCHANGED << st_m5, ema_m5, m5_bucket, nh_state, sinkVars,
                            sealed5 >>
            ELSE
              /\ m5_bucket' = IF has_bucket THEN [m5_bucket EXCEPT ![s] = p.bk]
                              ELSE m5_bucket
              /\ IF sealed
                 THEN /\ st_m5' = m.st_m5
                      /\ ema_m5' = m.ema_m5
                      /\ nh_state' = m.nh_state
                      /\ store5' = m.store5
                      /\ chan5' = m.chan5
                      /\ sealed5' = [sealed5 EXCEPT ![s] =
                                        Append(@, [key |-> p.out[1].time, by |-> "live"])]
                 ELSE UNCHANGED << st_m5, ema_m5, nh_state, store5, chan5, sealed5 >>
              /\ store1' = IF wrote
                           THEN [store1 EXCEPT ![s] = Upsert(@, bar_dict)]
                           ELSE store1
              /\ chan1' = IF redis /\ r1 = "ok"
                          THEN [chan1 EXCEPT ![s] = Append(@, bar_dict)]
                          ELSE chan1
              /\ calls' = [calls EXCEPT
                             ![s].set5 = @ + (IF sealed THEN m.set5 ELSE 0),
                             ![s].pub5 = @ + (IF sealed THEN m.pub5 ELSE 0),
                             ![s].set1 = @ + (IF redis THEN 1 ELSE 0),
                             ![s].pub1 = @ + (IF wrote THEN 1 ELSE 0)]

\* a live bar of the session day (not older than the bars delivered before it)
\* or a bar of the day before is delivered to on_bar
OnBar(s, day, k, r1, r5) ==
    /\ started
    /\ ~stopped
    /\ eng = <<>>
    /\ bar_subs[s] > 0
    /\ bar_count < lim.live
    /\ k \in 1..Len(Slots)
    /\ \/ day = SessionDay /\ k >= live_slot[s] /\ k >= hist_slot[s]
       \/ day = SessionDay - 1 /\ k = 3
    /\ OnBarDo(s, LiveBar(day, k, LiveShape(bar_count)), r1, r5)
    /\ live_slot' = IF day = SessionDay THEN [live_slot EXCEPT ![s] = k] ELSE live_slot
    /\ UNCHANGED << cfgVars, gwVars, histVars, lim, hist_slot, hist_flushed, bar_subs,
                    timers, eng >>
    /\ UNCHANGED tickVars

----------------------------------------------------------------------------
(* on_quote_tick *)

\* seconds into its minute at which a quote tick arrives
TickOffset == 5

\* the slots in whose minute a quote tick may arrive
TickSlots == {2, 3, 5}

\* mid prices of the quote ticks
TickMids == {1010, 1050}

\* a mutant of on_quote_tick: every tick sets open as well
OnQuoteTickOpenReset(s, ts, mid, ok) ==
    /\ started
    /\ ~stopped
    /\ eng = <<>>
    /\ tick_subs[s] > 0
    /\ LET cur    == cur_bar[s]
           et     == EtFakeUtc(ts)
           et_min == et - (et % 60)
           new    == IF cur = <<>>
                     THEN << [symbol |-> s, time |-> et_min, open |-> mid,
                              high |-> mid, low |-> mid, close |-> mid] >>
                     ELSE << [cur[1] EXCEPT !.open = mid, !.close = mid] >>
       IN  /\ cur # <<>> => et_min >= cur[1].time
           /\ cur_bar' = [cur_bar EXCEPT ![s] = new]
           /\ tick_pub' = IF redis /\ ok THEN [tick_pub EXCEPT ![s] = new]
                          ELSE tick_pub
    /\ UNCHANGED << cfgVars, actorVars, indVars, histVars, nh_state, bar_count, sinkVars,
                    envVars, tick_subs, hist_flushed, bar_subs, timers, eng,
                    fed1, sealed5 >>

\* a mutant of on_quote_tick: the preview bar is appended to bars:1m:{sym}
OnQuoteTickStoring(s, ts, mid, ok) ==
    /\ started
    /\ ~stopped
    /\ eng = <<>>
    /\ tick_subs[s] > 0
    /\ LET cur    == cur_bar[s]
           et     == EtFakeUtc(ts)
           et_min == et - (et % 60)
           new    == IF cur = <<>>
                     THEN << [symbol |-> s, time |-> et_min, open |-> mid,
                              high |-> mid, low |-> mid, close |-> mid] >>
                     ELSE << [cur[1] EXCEPT !.high = Max2(@, mid),
                                            !.low = Min2(@, mid),
                                            !.close = mid] >>
       IN  /\ cur # <<>> => et_min >= cur[1].time
           /\ cur_bar' = [cur_bar EXCEPT ![s] = new]
           /\ tick_pub' = IF redis /\ ok THEN [tick_pub EXCEPT ![s] = new]
                          ELSE tick_pub
           /\ store1' = [store1 EXCEPT ![s] = LastN(Append(@, new[1]), MAX_BARS)]
    /\ UNCHANGED << cfgVars, actorVars, indVars, histVars, nh_state, bar_count, store5,
                    chan1, chan5, calls, envVars, tick_subs, hist_flushed,
                    bar_subs, timers, eng, fed1, sealed5 >>

\* on_quote_tick for a tick of symbol s at ts with mid price `mid`; ok is
\* whether the publish goes through.  The tick is not older than the minute
\* of the preview bar.
OnQuoteTick(s, ts, mid, ok) ==
    /\ started
    /\ ~stopped
    /\ eng = <<>>
    /\ tick_subs[s] > 0
    /\ LET cur    == cur_bar[s]
           et     == EtFakeUtc(ts)
           et_min == et - (et % 60)
           new    == IF cur = <<>>
                     THEN << [symbol |-> s, time |-> et_min, open |-> mid,
                              high |-> mid, low |-> mid, close |-> mid] >>
                     ELSE << [cur[1] EXCEPT !.high = Max2(@, mid),
                                            !.low = Min2(@, mid),
                                            !.close = mid] >>
       IN  /\ cur # <<>> => et_min >= cur[1].time
           /\ cur_bar' = [cur_bar EXCEPT ![s] = new]
           /\ tick_pub' = IF redis /\ ok THEN [tick_pub EXCEPT ![s] = new]
                          ELSE tick_pub
    /\ UNCHANGED << cfgVars, actorVars, indVars, histVars, nh_state, bar_count, sinkVars,
                    envVars, tick_subs, hist_flushed, bar_subs, timers, eng,
                    fed1, sealed5 >>

----------------------------------------------------------------------------
(* The system *)

Next ==
    \/ OnStart
    \/ \E s \in Symbols, k \in HistSlots : OnHistoricalData(s, k)
    \/ OnHistoricalDataM5
    \/ \E t \in TimerIds : FlushCheck(t)
    \/ \E t \in TimerIds : FlushSet(t)
    \/ \E t \in TimerIds : FlushM1(t)
    \/ \E t \in TimerIds : FlushSeal(t)
    \/ \E t \in TimerIds : FlushM5Write(t)
    \/ \E t \in TimerIds : FlushSub(t)
    \/ \E s \in Symbols, day \in {SessionDay - 1, SessionDay},
          k \in 1..Len(Slots), r1 \in RedisOutcomes, r5 \in RedisOutcomes :
             OnBar(s, day, k, r1, r5)

Spec == Init /\ [][Next]_vars

\* a step of a flush timer thread
TimerStep ==
    \E t \in TimerIds :
       \/ FlushCheck(t) \/ FlushSet(t) \/ FlushM1(t)
       \/ FlushSeal(t) \/ FlushM5Write(t) \/ FlushSub(t)

\* the timer threads are scheduled: a started timer fires and a running
\* _flush_history_for goes on to its end
SpecFair == Init /\ [][Next]_vars /\ WF_vars(TimerStep)

\* the live configuration with one instrument, a history longer than the
\* retention and full series left by an earlier session
InitLong ==
    /\ config = [instrument_id |-> "A.X", instrument_ids |-> <<>>,
                 backtest_mode |-> FALSE]
    /\ lim = [hist |-> MaxHistLong, live |-> MaxLiveLong]
    /\ store1 = [s \in Symbols |-> StaleFull]
    /\ store5 = [s \in Symbols |-> StaleFull]
    /\ InitRest

SpecLong == InitLong /\ [][Next]_vars

----------------------------------------------------------------------------
(* Sequential backfill: a history of many shapes, then the seal of the flush *)

\* seconds after 09:30:00 of the bars of the history (three buckets)
FeedOffsets == {0, 60, 240, 300, 360, 600}

\* prices and volume of the bars of the history: a base bar, a rise, a fall
\* through the lower band, a narrow bar, a rise through the upper band
FeedShapes ==
    << [open |-> 1000, high |-> 1040, low |-> 980,  close |-> 1020, volume |-> 10],
       [open |-> 1020, high |-> 1100, low |-> 1000, close |-> 1080, volume |-> 20],
       [open |-> 1080, high |-> 1090, low |-> 600,  close |-> 610,  volume |-> 30],
       [open |-> 1000, high |-> 1010, low |-> 990,  close |-> 1000, volume |-> 5],
       [open |-> 910,  high |-> 1900, low |-> 900,  close |-> 1890, volume |-> 40] >>

\* the bar of the history at `off` seconds after 09:30:00 with shape j
FeedBar(off, j) ==
    [ts |-> SessionDay * 86400 + HMS(9, 30, 0) + off - UtcOffset(0),
     open |-> FeedShapes[j].open, high |-> FeedShapes[j].high,
     low |-> FeedShapes[j].low, close |-> FeedShapes[j].close,
     volume |-> FeedShapes[j].volume]

\* on_historical_data for the bar b of symbol s, start to end; the bars come
\* with increasing timestamps, before the flush
Backfill(s, b) ==
    /\ started
    /\ ~stopped
    /\ s \in DOMAIN bar_types
    /\ ~Get(hist_flushed, s, FALSE)
    /\ Len(Get(hist_m1, s, <<>>)) < lim.hist
    /\ LET buf == Get(hist_m1, s, <<>>)
           et  == EtFakeUtc(b.ts)
           u   == STUpdate(st_m1[s], b.open, b.high, b.low, b.close)
           e   == EMAUpdate(ema_m1[s], b.close)
           bar_dict == HistBarDict(b, et, u, e)
           p   == BucketPush(m5_bucket[s], bar_dict)
       IN  /\ buf # <<>> => buf[Len(buf)].time < et
           /\ st_m1'  = [st_m1 EXCEPT ![s] = u.st]
           /\ ema_m1' = [ema_m1 EXCEPT ![s] = e.ema]
           /\ hist_m1' = Put(hist_m1, s, Append(buf, bar_dict))
           /\ fed1' = [fed1 EXCEPT ![s] = Append(@, [time |-> et, live |-> FALSE])]
           /\ m5_bucket' = [m5_bucket EXCEPT ![s] = p.bk]
           /\ IF p.out # <<>>
              THEN LET m5_out == p.out[1]
                       u5 == STUpdate(st_m5[s], m5_out.open, m5_out.high,
                                      m5_out.low, m5_out.close)
                       e5 == EMAUpdate(ema_m5[s], m5_out.close)
                   IN  /\ st_m5'  = [st_m5 EXCEPT ![s] = u5.st]
                       /\ ema_m5' = [ema_m5 EXCEPT ![s] = e5.ema]
                       /\ hist_m5' = Put(hist_m5, s,
                                         Append(Get(hist_m5, s, <<>>),
                                                M5BarDict(m5_out, u5, e5)))
                       /\ sealed5' = [sealed5 EXCEPT ![s] =
                                         Append(@, [key |-> m5_out.time, by |-> "hist"])]
              ELSE UNCHANGED << st_m5, ema_m5, hist_m5, sealed5 >>
    /\ UNCHANGED << cfgVars, actorVars, liveVars, sinkVars, envVars, tickVars, hist_flushed,
                    bar_subs, timers, eng >>

\* the flag assignment and step 2 of _flush_history_for: the open bucket is
\* force-sealed, run through the M5 state machines and added to the M5 list
BackfillSeal(s) ==
    /\ started
    /\ s \in DOMAIN bar_types
    /\ ~Get(hist_flushed, s, FALSE)
    /\ hist_flushed' = Put(hist_flushed, s, TRUE)
    /\ LET last_m5 == BucketFlushCurrent(m5_bucket[s])
       IN  IF last_m5 # <<>>
           THEN LET u5 == STUpdate(st_m5[s], last_m5[1].open, last_m5[1].high,
                                   last_m5[1].low, last_m5[1].close)
                    e5 == EMAUpdate(ema_m5[s], last_m5[1].close)
                IN  /\ st_m5'  = [st_m5 EXCEPT ![s] = u5.st]
                    /\ ema_m5' = [ema_m5 EXCEPT ![s] = e5.ema]
                    /\ hist_m5' = Put(hist_m5, s,
                                      Append(Get(hist_m5, s, <<>>),
                                             M5BarDict(last_m5[1], u5, e5)))
                    /\ sealed5' = [sealed5 EXCEPT ![s] =
                                      Append(@, [key |-> last_m5[1].time, by |-> "flush"])]
           ELSE UNCHANGED << st_m5, ema_m5, hist_m5, sealed5 >>
    /\ UNCHANGED << cfgVars, actorVars, st_m1, ema_m1, m5_bucket, hist_m1, liveVars, sinkVars,
                    envVars, tickVars, bar_subs, timers, eng, fed1 >>

InitFeed ==
    /\ config = [instrument_id |-> "A.X", instrument_ids |-> <<>>,
                 backtest_mode |-> TRUE]
    /\ lim = [hist |-> MaxFeed, live |-> 0]
    /\ store1 = [s \in Symbols |-> StaleSeries]
    /\ store5 = [s \in Symbols |-> StaleSeries]
    /\ InitRest

NextFeed ==
    \/ OnStart
    \/ \E s \in Symbols, off \in FeedOffsets, j \in 1..Len(FeedShapes) :
          Backfill(s, FeedBar(off, j))
    \/ \E s \in Symbols : BackfillSeal(s)

SpecFeed == InitFeed /\ [][NextFeed]_vars

\* the live configuration with one instrument, with quote ticks delivered
InitTick ==
    /\ config = [instrument_id |-> "A.X", instrument_ids |-> <<>>,
                 backtest_mode |-> FALSE]
    /\ lim = [hist |-> MaxHistTick, live |-> MaxLiveTick]
    /\ store1 = [s \in Symbols |-> StaleSeries]
    /\ store5 = [s \in Symbols |-> StaleSeries]
    /\ InitRest

NextTick ==
    \/ Next
    \/ \E s \in Symbols, k \in TickSlots, mid \in TickMids, ok \in BOOLEAN :
          /\ k >= live_slot[s] /\ k >= hist_slot[s]
          /\ OnQuoteTick(s, TsOf(SessionDay, k) + TickOffset, mid, ok)

SpecTick == InitTick /\ [][NextTick]_vars

\* on_stop: the Redis client is closed (the attribute keeps the client); the
\* engine delivers no callback to a stopped strategy; the timers are left
OnStop ==
    /\ started
    /\ ~stopped
    /\ eng = <<>>
    /\ stopped' = TRUE
    /\ UNCHANGED << actorVars, config, started, redis, today_et_date, bar_types, indVars,
                    histVars, liveVars, sinkVars, envVars, tickVars,
                    hist_flushed, bar_subs, timers, eng, fed1, sealed5 >>

NextStop ==
    \/ Next
    \/ OnStop

\* the live configuration with one instrument, stopped at any moment
SpecStop == InitTick /\ [][NextStop]_vars

\* the live configuration with two instruments of different symbols
InitPair ==
    /\ config = [instrument_id |-> "A.X", instrument_ids |-> <<"B.X">>,
                 backtest_mode |-> FALSE]
    /\ lim = [hist |-> MaxHistPair, live |-> MaxLivePair]
    /\ store1 = [s \in Symbols |-> StaleSeries]
    /\ store5 = [s \in Symbols |-> StaleSeries]
    /\ InitRest

\* the slot of the historical bars and the slot of the live bars and ticks
\* of the two-symbol runs
PairHistSlot == 2
PairLiveSlot == 3

\* the operations of the two-symbol runs: per symbol a historical bar of
\* 09:30, the flush, live bars of 09:31 and ticks in that minute
NextPair ==
    \/ OnStart
    \/ \E s \in Symbols : OnHistoricalData(s, PairHistSlot)
    \/ OnHistoricalDataM5
    \/ \E t \in TimerIds : FlushCheck(t)
    \/ \E t \in TimerIds : FlushSet(t)
    \/ \E t \in TimerIds : FlushM1(t)
    \/ \E t \in TimerIds : FlushSeal(t)
    \/ \E t \in TimerIds : FlushM5Write(t)
    \/ \E t \in TimerIds : FlushSub(t)
    \/ \E s \in Symbols, r1 \in RedisOutcomes :
          OnBar(s, SessionDay, PairLiveSlot, r1, "ok")
    \/ \E s \in Symbols :
          /\ PairLiveSlot >= live_slot[s] /\ PairLiveSlot >= hist_slot[s]
          /\ OnQuoteTick(s, TsOf(SessionDay, PairLiveSlot) + TickOffset, 1010, TRUE)

SpecPair == InitPair /\ [][NextPair]_vars

----------------------------------------------------------------------------
(* Properties *)

Flushed(s) == Get(hist_flushed, s, FALSE)

\* the timer is inside _flush_history_for, between the flag assignment and the
\* subscription: it reads the buffers, seals the bucket, updates the M5 state
\* machines and writes
InFlush(t) == timers[t].pc \in {"m1", "seal", "m5w"}

\* the timer has entered the body of the flush (the flag assignment is behind it)
InBody(t) == timers[t].pc \in {"m1", "seal", "m5w", "sub", "done"}

\* a flush of the symbol has started: its timer has fired
FlushStarted(s) ==
    \E t \in DOMAIN timers : timers[t].sym = s /\ timers[t].pc # "armed"

\* a flush of the symbol has run to its end, the subscription included
FlushFinished(s) ==
    \E t \in DOMAIN timers : timers[t].sym = s /\ timers[t].pc = "done"

\* everything a flush can touch for symbol s
Durable(s) ==
    << store1[s], store5[s], chan1[s], chan5[s], calls[s], bar_subs[s],
       Get(st_m1, s, <<>>), Get(ema_m1, s, <<>>), Get(st_m5, s, <<>>),
       Get(ema_m5, s, <<>>), Get(m5_bucket, s, <<>>), Get(hist_m1, s, <<>>),
       Get(hist_m5, s, <<>>), Flushed(s) >>

\* the indicator state machines and the bucket of symbol s
Machines(s) ==
    << Get(st_m1, s, <<>>), Get(ema_m1, s, <<>>), Get(st_m5, s, <<>>),
       Get(ema_m5, s, <<>>), Get(m5_bucket, s, <<>>) >>

\* the OHLCV and the key of a stored entry are those of the live bar b
IsBar(entry, s, b) ==
    /\ "symbol" \in DOMAIN entry
    /\ entry.symbol = s
    /\ entry.time = EtFakeUtc(b.ts)
    /\ entry.open = b.open /\ entry.high = b.high /\ entry.low = b.low
    /\ entry.close = b.close /\ entry.volume = b.volume

\* b is a bar of the session date inside [09:30, 16:00)
InSession(b) == EtDate(b.ts) = SessionDay /\ IsRth(EtFakeUtc(b.ts))

\* C1: a flush invocation that finds the symbol's flushed flag set is a no-op:
\* it returns at the guard, and the stored 1m and 5m series, the indicator
\* state machines, the bucket, the buffers and the live subscription are what
\* they were before it; a timer that returned at the guard does nothing later.
C1_SecondFlushIsNoOp ==
    [][\A t \in DOMAIN timers :
         /\ (timers[t].pc = "armed" /\ Flushed(timers[t].sym)
                /\ timers'[t].pc # "armed")
              => /\ timers'[t].pc = "skipped"
                 /\ Durable(timers[t].sym)' = Durable(timers[t].sym)
         /\ timers[t].pc = "skipped" => timers'[t].pc = "skipped"]_vars

\* C1 witness: a second invocation returned at the guard after the first one
\* wrote a non-empty buffer to the sink
C1_Witness ==
    \E t, u \in DOMAIN timers :
       /\ timers[t].pc = "skipped" /\ timers[u].pc = "done"
       /\ timers[t].sym = timers[u].sym
       /\ calls[timers[t].sym].set1 > 0
       /\ Get(hist_m1, timers[t].sym, <<>>) # <<>>

\* C2: before a symbol's flush has started nothing was written to its 1m or 5m
\* series key and nothing was published on its 1m or 5m channel, whatever
\* historical bars were delivered.
C2_NothingPublishedBeforeFlush ==
    \A s \in Symbols :
       ~FlushStarted(s) =>
          /\ calls[s] = NoCalls
          /\ store1[s] = StaleSeries /\ store5[s] = StaleSeries
          /\ chan1[s] = <<>> /\ chan5[s] = <<>>

\* C2 witness: historical bars are buffered and have sealed an M5 bar, and the
\* flush of the symbol has not started
C2_Witness ==
    /\ ~FlushStarted("A")
    /\ Len(Get(hist_m1, "A", <<>>)) = 2
    /\ Get(hist_m5, "A", <<>>) # <<>>

\* C3: once the flushed flag of a symbol is set, a historical-bar delivery does
\* not update the symbol's M1 or M5 state machines or its bucket.
C3_LateHistoricalNotApplied ==
    [][\A s \in Symbols :
         /\ (Flushed(s) /\ Get(hist_m1, s, <<>>)' # Get(hist_m1, s, <<>>))
              => Machines(s)' = Machines(s)
         /\ (Flushed(s) /\ eng # <<>> /\ eng[1].sym = s /\ eng' = <<>>)
              => Machines(s)' = Machines(s)]_vars

\* C4: an on_bar call changes a symbol's state machines, bucket or stored
\* series only when a flush of that symbol has finished (the subscription is
\* the flush's last step).
C4_LiveOnlyAfterFlush ==
    [][\A s \in Symbols :
         (bar_count' # bar_count
            /\ (Machines(s)' # Machines(s) \/ store1'[s] # store1[s]
                  \/ store5'[s] # store5[s]))
           => FlushFinished(s)]_vars

\* C4 witness: a live bar was applied to the state machines and stored
C4_Witness ==
    /\ bar_count > 0
    /\ \E i \in DOMAIN fed1["A"] : fed1["A"][i].live
    /\ store1["A"] # <<>>
    /\ "symbol" \in DOMAIN store1["A"][Len(store1["A"])]

\* C5: no two bar-processing calls of a symbol run at once: while the timer
\* thread is inside the flush of a symbol, no historical-bar callback of that
\* symbol is in progress on the engine thread.
C5_FlushNeverOverlapsCallback ==
    \A t \in DOMAIN timers :
       ~(InFlush(t) /\ eng # <<>> /\ eng[1].sym = timers[t].sym)

\* C6: the body of the flush executes at most once per symbol, and the live
\* bars of a symbol are subscribed at most once.
C6_FlushBodyAtMostOnce ==
    \A s \in Symbols :
       /\ Cardinality({t \in DOMAIN timers : timers[t].sym = s /\ InBody(t)}) <= 1
       /\ bar_subs[s] <= 1

\* C7: each distinct one-minute timestamp of a symbol steps the M1 state
\* machines once: a live bar whose timestamp was already given to them (a
\* repeat of the last stored bar) is not a further state step.
C7_OneUpdatePerTimestamp ==
    \A s \in Symbols : \A i, j \in DOMAIN fed1[s] :
       (i < j /\ fed1[s][j].live) => fed1[s][i].time # fed1[s][j].time

\* C8: when on_bar writes an in-session live bar, and the bar's timestamp
\* equals that of the last stored entry, the series keeps its length and its
\* entries but the last, which becomes the bar; otherwise the bar is appended
\* as the new last entry (the oldest entry going when MAX_BARS is exceeded).
C8_Upsert ==
    [][\A s \in Symbols, k \in 1..Len(Slots), r1 \in {"ok", "pub_err"},
          r5 \in RedisOutcomes :
         (redis /\ OnBar(s, SessionDay, k, r1, r5)
                /\ InSession(LiveBar(SessionDay, k, 1)))
           => LET b   == LiveBar(SessionDay, k, LiveShape(bar_count))
                  old == store1[s]
                  new == store1'[s]
              IN  /\ new # <<>>
                  /\ IsBar(new[Len(new)], s, b)
                  /\ IF old # <<>> /\ old[Len(old)].time = EtFakeUtc(b.ts)
                     THEN /\ Len(new) = Len(old)
                          /\ \A i \in 1..(Len(old) - 1) : new[i] = old[i]
                     ELSE IF Len(old) < MAX_BARS
                          THEN SubSeq(new, 1, Len(new) - 1) = old
                          ELSE SubSeq(new, 1, Len(new) - 1) = Tail(old)]_vars

\* C8 witness: a live bar repeated the timestamp of the last stored entry and
\* replaced it
C8_Witness ==
    /\ \E i, j \in DOMAIN fed1["A"] :
          i < j /\ fed1["A"][j].live /\ fed1["A"][i].time = fed1["A"][j].time
                /\ store1["A"] # <<>>
                /\ store1["A"][Len(store1["A"])].time = fed1["A"][j].time
                /\ "symbol" \in DOMAIN store1["A"][Len(store1["A"])]
    /\ calls["A"].set1 = 2
    /\ Len(store1["A"]) = 1

\* C9: a five-minute bucket that the flush force-sealed is not sealed and run
\* through the M5 state machines again by a later live bar.
C9_BucketSealedOnce ==
    \A s \in Symbols : \A i, j \in DOMAIN sealed5[s] :
       (i < j /\ sealed5[s][i].by = "flush" /\ sealed5[s][j].by = "live")
          => sealed5[s][i].key # sealed5[s][j].key

\* C10: a live bar of the session date before 09:30 updates the M1 state
\* machines and causes no write and no publish; a live bar at exactly 09:30:00
\* whose Redis calls succeed is the last stored entry and is published on the
\* 1m channel.
C10_PremarketAndOpen ==
    [][\A s \in Symbols, k \in 1..Len(Slots), r1 \in RedisOutcomes,
          r5 \in RedisOutcomes :
         OnBar(s, SessionDay, k, r1, r5) =>
           /\ Slots[k] < HMS(9, 30, 0) =>
                /\ st_m1'[s] # st_m1[s] /\ ema_m1'[s] # ema_m1[s]
                /\ Len(fed1'[s]) = Len(fed1[s]) + 1
                /\ store1' = store1 /\ store5' = store5
                /\ chan1' = chan1 /\ chan5' = chan5
                /\ calls' = calls
           /\ (Slots[k] = HMS(9, 30, 0) /\ redis /\ r1 = "ok") =>
                LET b == LiveBar(SessionDay, k, LiveShape(bar_count))
                IN  /\ store1'[s] # <<>>
                    /\ IsBar(store1'[s][Len(store1'[s])], s, b)
                    /\ Len(chan1'[s]) = Len(chan1[s]) + 1
                    /\ IsBar(chan1'[s][Len(chan1'[s])], s, b)]_vars

\* C10 witness: a live bar of 09:29:59 was given to the state machines and a
\* live bar of 09:30:00 is stored and published
C10_Witness ==
    /\ \E i \in DOMAIN fed1["A"] :
          fed1["A"][i].live /\ fed1["A"][i].time % 86400 = HMS(9, 29, 59)
    /\ store1["A"] # <<>>
    /\ "symbol" \in DOMAIN store1["A"][Len(store1["A"])]
    /\ store1["A"][Len(store1["A"])].time % 86400 = HMS(9, 30, 0)
    /\ chan1["A"] # <<>>
    /\ chan1["A"][Len(chan1["A"])].time % 86400 = HMS(9, 30, 0)
    /\ calls["A"].pub1 = 1

\* exchange-local times of day at and after the close
AfterClose ==
    { HMS(16, 0, 0), HMS(16, 0, 59), HMS(16, 1, 0), HMS(20, 0, 0), HMS(23, 59, 59) }

\* C11: a time of day at or after 16:00:00 is neither in the session nor
\* premarket, and a live bar at or after 16:00:00 leaves the symbol's state
\* machines, bucket and stored series as they were and publishes nothing.
C11_AfterCloseDropped ==
    /\ \A t \in AfterClose : ~IsRth(t) /\ ~IsPremarket(t)
    /\ [][\A s \in Symbols, k \in 1..Len(Slots), r1 \in RedisOutcomes,
             r5 \in RedisOutcomes :
            (OnBar(s, SessionDay, k, r1, r5) /\ Slots[k] >= HMS(16, 0, 0))
              => /\ Machines(s)' = Machines(s)
                 /\ fed1' = fed1 /\ sealed5' = sealed5
                 /\ store1' = store1 /\ store5' = store5
                 /\ chan1' = chan1 /\ chan5' = chan5
                 /\ calls' = calls]_vars

\* C11 witness: after the flush wrote the symbol's warmed-up series, a live bar
\* of 16:00:00 was delivered and none of the bars given to the state machines
\* is of 16:00:00
C11_Witness ==
    /\ live_slot["A"] = Len(Slots)
    /\ bar_count > 0
    /\ Len(fed1["A"]) > 0
    /\ \A i \in DOMAIN fed1["A"] : fed1["A"][i].time % 86400 < HMS(16, 0, 0)
    /\ calls["A"].set1 > 0

\* C12: a live bar whose exchange-local date is not the session's trading
\* date leaves the symbol's state machines, bucket, preview bar and stored
\* series as they were and publishes nothing.
C12_OtherDateDiscarded ==
    [][\A s \in Symbols, k \in 1..Len(Slots), r1 \in RedisOutcomes,
          r5 \in RedisOutcomes :
         OnBar(s, SessionDay - 1, k, r1, r5)
           => /\ Machines(s)' = Machines(s)
              /\ cur_bar' = cur_bar
              /\ fed1' = fed1 /\ sealed5' = sealed5
              /\ store1' = store1 /\ store5' = store5
              /\ chan1' = chan1 /\ chan5' = chan5
              /\ calls' = calls /\ tick_pub' = tick_pub]_vars

\* C12 witness: a bar of the day before was the only live bar delivered, while
\* the symbol has warmed-up state machines and a preview bar
C12_Witness ==
    /\ bar_count = 1
    /\ live_slot["A"] = 0
    /\ cur_bar["A"] # <<>>
    /\ Len(fed1["A"]) > 0
    /\ calls["A"].set1 > 0

\* the entries of a series whose time of day lies in [09:30:00, 16:00:00)
InWindow(seq) ==
    SelectSeq(seq, LAMBDA b : /\ HMS(9, 30, 0) <= b.time % 86400
                              /\ b.time % 86400 < HMS(16, 0, 0))

\* new holds the most recent entries of src, MAX_BARS of them at most, in order
KeepsRecent(new, src) ==
    /\ Len(new) = Min2(Len(src), MAX_BARS)
    /\ \A j \in 1..Len(new) : new[j] = src[Len(src) - Len(new) + j]

\* C13: the flush's write of a non-empty buffer, when Redis takes it, leaves
\* under bars:1m the most recent MAX_BARS of the buffered enriched bars whose
\* time lies in [09:30, 16:00), in buffer order (when the write raises, the
\* key keeps what it held).
C13_FlushStoresSessionBars ==
    [][\A t \in DOMAIN timers :
         (timers[t].pc = "m1" /\ timers'[t].pc = "seal")
           => LET s == timers[t].sym
              IN  \/ KeepsRecent(store1'[s], InWindow(hist_m1[s]))
                  \/ store1'[s] = store1[s] /\ store1[s] = StaleFull]_vars

\* C13 witness: four bars were buffered and given to the state machines, the
\* one of 09:29:59 among them; the flush has run and bars:1m holds the last
\* two of the three session bars
C13_Witness ==
    /\ Len(Get(hist_m1, "A", <<>>)) = MaxHistLong
    /\ Len(fed1["A"]) = MaxHistLong
    /\ hist_m1["A"][1].time % 86400 = HMS(9, 29, 59)
    /\ Len(InWindow(hist_m1["A"])) > MAX_BARS
    /\ store1["A"] = SubSeq(hist_m1["A"], MaxHistLong - MAX_BARS + 1, MaxHistLong)
    /\ \E t \in DOMAIN timers : timers[t].pc = "done"
    /\ bar_count = 0

\* C14: bars:1m and bars:5m of every symbol hold MAX_BARS entries at most, and
\* every write keeps the most recent entries: a live bar's write keeps the
\* end of the old series before the bar it adds (or replaces the last entry),
\* the flush's write keeps the end of the session bars of its buffer.
C14_RetentionBound ==
    [][\A s \in Symbols :
         LET old1 == store1[s]
             new1 == store1'[s]
             old5 == store5[s]
             new5 == store5'[s]
             live == bar_count' # bar_count
         IN  /\ Len(new1) <= MAX_BARS /\ Len(new5) <= MAX_BARS
             /\ (new1 # old1 /\ live)
                  => \/ KeepsRecent(new1, Append(old1, new1[Len(new1)]))
                     \/ /\ Len(new1) = Len(old1)
                        /\ old1[Len(old1)].time = new1[Len(new1)].time
                        /\ \A i \in 1..(Len(old1) - 1) : new1[i] = old1[i]
             /\ (new1 # old1 /\ ~live)
                  => KeepsRecent(new1, InWindow(hist_m1[s]))
             /\ (new5 # old5 /\ live)
                  => KeepsRecent(new5, Append(old5, new5[Len(new5)]))
             /\ (new5 # old5 /\ ~live)
                  => \E t \in DOMAIN timers :
                        /\ timers[t].sym = s /\ timers[t].pc = "m5w"
                        /\ KeepsRecent(new5, InWindow(IF timers[t].alias
                                                      THEN hist_m5[s]
                                                      ELSE timers[t].m5_bars))]_vars

\* C14 witness: both keys were full when a live bar's write added an entry to
\* each: the oldest entry went and the new one is last
C14_Witness ==
    /\ bar_count > 0
    /\ Len(store1["A"]) = MAX_BARS /\ Len(store5["A"]) = MAX_BARS
    /\ store1["A"][MAX_BARS - 1] = StaleFull[MAX_BARS]
    /\ "symbol" \in DOMAIN store1["A"][MAX_BARS]
    /\ store5["A"][MAX_BARS - 1] = StaleFull[MAX_BARS]
    /\ "nh_score" \in DOMAIN store5["A"][MAX_BARS]

\* the enriched bars emitted so far for the M1 series and the M5 series of s
Emitted1(s) == Get(hist_m1, s, <<>>)
Emitted5(s) == Get(hist_m5, s, <<>>)

\* new is old with one more entry
Grew(old, new) == Len(new) = Len(old) + 1 /\ SubSeq(new, 1, Len(old)) = old

\* the bands of the entry `new` against those of the entry `prev` before it
Ratchet(prev, new) ==
    /\ new.st_upper <= prev.st_upper \/ prev.close > prev.st_upper
    /\ new.st_lower >= prev.st_lower \/ prev.close < prev.st_lower

\* C15: once a state machine's band is initialized, the upper band an update
\* emits is at most the upper band emitted before it unless the previous
\* close was above that band, and the lower band it emits is at least the
\* lower band emitted before it unless the previous close was below that
\* band (for the M1 and for the M5 state machine).
C15_RatchetMonotone ==
    [][\A s \in Symbols :
         /\ (s \in DOMAIN st_m1 /\ st_m1[s].initialized
                /\ Grew(Emitted1(s), Emitted1(s)'))
              => Ratchet(Emitted1(s)[Len(Emitted1(s))],
                         Emitted1(s)'[Len(Emitted1(s)')])
         /\ (s \in DOMAIN st_m5 /\ st_m5[s].initialized
                /\ Grew(Emitted5(s), Emitted5(s)'))
              => Ratchet(Emitted5(s)[Len(Emitted5(s))],
                         Emitted5(s)'[Len(Emitted5(s)')])]_vars

\* C15 witness: with the band initialized, one update kept the upper band
\* where it was and a later one, after a close above the band, raised it
C15_Witness ==
    \E i, j \in 1..(Len(Emitted1("A")) - 1) :
       /\ i < j
       /\ Emitted1("A")[i].st_upper # 0
       /\ Emitted1("A")[i + 1].st_upper = Emitted1("A")[i].st_upper
       /\ Emitted1("A")[j].close > Emitted1("A")[j].st_upper
       /\ Emitted1("A")[j + 1].st_upper > Emitted1("A")[j].st_upper

\* the direction emitted before the entry i of a series (+1 before the first)
PrevDir(seq, i) == IF i = 1 THEN 1 ELSE seq[i - 1].st_dir

\* the direction and the value of the entry `new` follow the direction rule
DirectionRule(prev_dir, new) ==
    /\ new.st_dir = IF prev_dir = -1 /\ new.close > new.st_upper THEN 1
                    ELSE IF prev_dir = 1 /\ new.close < new.st_lower THEN -1
                    ELSE prev_dir
    /\ new.st_value = IF new.st_dir = 1 THEN new.st_lower ELSE new.st_upper

\* C16: every initialized update emits direction +1 if the direction before
\* was -1 and the close is above the final upper band, -1 if the direction
\* before was +1 and the close is below the final lower band, and the
\* direction before otherwise; the value it emits is the final lower band
\* when the direction is +1 and the final upper band when it is -1.
C16_DirectionRule ==
    [][\A s \in Symbols :
         /\ (Grew(Emitted1(s), Emitted1(s)') /\ st_m1'[s].initialized)
              => DirectionRule(PrevDir(Emitted1(s)', Len(Emitted1(s)')),
                               Emitted1(s)'[Len(Emitted1(s)')])
         /\ (Grew(Emitted5(s), Emitted5(s)') /\ st_m5'[s].initialized)
              => DirectionRule(PrevDir(Emitted5(s)', Len(Emitted5(s)')),
                               Emitted5(s)'[Len(Emitted5(s)')])]_vars

\* C16 witness: the direction went from +1 to -1 on a close below the lower
\* band and the value became the upper band, and went back to +1 on a close
\* above the upper band
C16_Witness ==
    \E i, j \in 2..Len(Emitted1("A")) :
       /\ i < j
       /\ Emitted1("A")[i - 1].st_dir = 1 /\ Emitted1("A")[i].st_dir = -1
       /\ Emitted1("A")[i].close < Emitted1("A")[i].st_lower
       /\ Emitted1("A")[i].st_value = Emitted1("A")[i].st_upper
       /\ Emitted1("A")[j - 1].st_dir = -1 /\ Emitted1("A")[j].st_dir = 1
       /\ Emitted1("A")[j].close > Emitted1("A")[j].st_upper
       /\ Emitted1("A")[j].st_value = Emitted1("A")[j].st_lower

\* C17: an update made before the smoothed range is initialized emits value 0,
\* direction +1 and bands 0, records the bar's close as the previous close and
\* leaves the previous direction and the band fields as NewST has them.
C17_WarmupPlaceholder ==
    [][\A s \in Symbols :
         (Grew(Emitted1(s), Emitted1(s)') /\ Len(Emitted1(s)') < StPeriod)
           => LET new == Emitted1(s)'[Len(Emitted1(s)')]
              IN  /\ new.st_value = 0 /\ new.st_dir = 1
                  /\ new.st_upper = 0 /\ new.st_lower = 0
                  /\ st_m1'[s].prev_close = new.close
                  /\ st_m1'[s].prev_dir = NewST.prev_dir
                  /\ st_m1'[s].prev_upper_b = NewST.prev_upper_b
                  /\ st_m1'[s].prev_lower_b = NewST.prev_lower_b
                  /\ st_m1'[s].initialized = NewST.initialized
                  /\ ~AtrInitialized(st_m1'[s].atr)]_vars

\* C17 witness: the first update emitted the placeholder and the update that
\* completed the warm-up emitted bands
C17_Witness ==
    /\ Len(Emitted1("A")) = StPeriod
    /\ Emitted1("A")[StPeriod - 1].st_upper = 0
    /\ Emitted1("A")[StPeriod - 1].st_value = 0
    /\ Emitted1("A")[StPeriod].st_upper > 0
    /\ st_m1["A"].initialized

\* the closes of a series of bars
Closes(seq) == [i \in 1..Len(seq) |-> seq[i].close]

\* C18: over EmaPeriod identical closes v, the ExponentialAverage update
\* returns None on each of the first EmaPeriod - 1 updates and v on the
\* EmaPeriod-th (and so does the batch calc_ema over the same closes).
C18_EmaSeeding ==
    [][\A s \in Symbols :
         LET new == Emitted1(s)'
             n   == Len(new)
         IN  (Grew(Emitted1(s), new) /\ n <= EmaPeriod
                /\ \A i \in 1..n : new[i].close = new[1].close)
               => /\ new[n].ema21 = IF n < EmaPeriod THEN NoneNum ELSE new[1].close
                  /\ CalcEma(Closes(new), EmaPeriod)[n] = new[n].ema21]_vars

\* C18 witness: EmaPeriod bars of one close were fed: the first update returned
\* None and the last one the close
C18_Witness ==
    /\ Len(Emitted1("A")) = EmaPeriod
    /\ \A i \in 1..EmaPeriod : Emitted1("A")[i].close = Emitted1("A")[1].close
    /\ Emitted1("A")[1].ema21 = NoneNum
    /\ Emitted1("A")[EmaPeriod].ema21 = Emitted1("A")[1].close

\* C19: push(bar) returns a sealed five-minute bar iff the bar's bucket key
\* differs from the open bucket's key and the open bucket is non-empty; then
\* the incoming bar is the only member of the new open bucket; otherwise it
\* is added to the open bucket and nothing is returned.
C19_PushSealsOnKeyChange ==
    [][\A s \in Symbols :
         Grew(Emitted1(s), Emitted1(s)') =>
           LET bar    == Emitted1(s)'[Len(Emitted1(s)')]
               bk     == m5_bucket[s]
               sealed == Grew(Emitted5(s), Emitted5(s)')
           IN  /\ sealed <=> (BucketKey(bar.time) # bk.cur_bucket /\ bk.bars # <<>>)
               /\ m5_bucket'[s].cur_bucket = BucketKey(bar.time)
               /\ IF sealed
                  THEN /\ m5_bucket'[s].bars = <<bar>>
                       /\ Emitted5(s)'[Len(Emitted5(s)')].time = bk.cur_bucket
                  ELSE /\ m5_bucket'[s].bars = Append(bk.bars, bar)
                       /\ Emitted5(s)' = Emitted5(s)]_vars

\* C19 witness: a push sealed a bucket and a later push added a second member
\* to the bucket opened by it
C19_Witness ==
    /\ "A" \in DOMAIN m5_bucket
    /\ Len(Emitted5("A")) = 1
    /\ Len(m5_bucket["A"].bars) = 2
    /\ m5_bucket["A"].cur_bucket # Emitted5("A")[1].time

\* the time and OHLCV of the bars of a series, without the indicator fields
Ohlcv(seq) ==
    [i \in 1..Len(seq) |->
       [time |-> seq[i].time, open |-> seq[i].open, high |-> seq[i].high,
        low |-> seq[i].low, close |-> seq[i].close, volume |-> seq[i].volume]]

\* C20: for one-minute bars with increasing timestamps, the bars returned by
\* the successive push calls followed by one final flush_current are, bucket
\* by bucket, the batch aggregation of the same bars: time = bucket key,
\* open = first open, high = max high, low = min low, close = last close,
\* volume = sum of volumes.
C20_PushEqualsBatch ==
    \A s \in Symbols :
       Get(hist_flushed, s, FALSE) =>
          Ohlcv(Emitted5(s)) = AggregateToM5(Emitted1(s))

\* C20 witness: four bars in two buckets were pushed and the open bucket was
\* flushed; the first bucket has several members with differing closes
C20_Witness ==
    /\ Get(hist_flushed, "A", FALSE)
    /\ Len(Emitted1("A")) = MaxFeed
    /\ Len(Emitted5("A")) = 2
    /\ BucketKey(Emitted1("A")[2].time) = Emitted5("A")[1].time
    /\ Emitted5("A")[1].close # Emitted1("A")[1].close

\* C21: over the same bars and the same smoothed-range series, the direction
\* and the bands emitted by the successive _STState.update calls equal those
\* of the batch calc_supertrend on every bar for which both have a value, the
\* first such bar included.
C21_IncrementalEqualsBatch ==
    \A s \in Symbols :
       LET inc   == Emitted1(s)
           batch == SupertrendOver(inc, AtrSeries(inc), StPeriod, StMult)
       IN  \A i \in 1..Len(inc) :
              batch[i] # NoSt =>
                 /\ inc[i].st_dir   = batch[i].dir
                 /\ inc[i].st_upper = batch[i].upper
                 /\ inc[i].st_lower = batch[i].lower

\* a live bar of symbol s inside [09:30, 16:00) passed the filters of on_bar
\* in this step and advanced the one-minute state machines
LiveRthAdvance(s) ==
    /\ Grew(fed1[s], fed1'[s])
    /\ fed1'[s][Len(fed1'[s])].live
    /\ IsRth(fed1'[s][Len(fed1'[s])].time)
    /\ st_m1'[s] # Get(st_m1, s, NewST)

\* C22: whenever a live bar inside [09:30, 16:00) of the session date advances
\* the symbol's one-minute indicator state, a write of the one-minute series
\* is attempted for that bar, on the sink-unavailable path too.
C22_AdvanceAttemptsWrite ==
    [][\A s \in Symbols :
         LiveRthAdvance(s) => calls'[s].set1 = calls[s].set1 + 1]_vars

\* the indicator state machines and the bucket after on_bar has processed
\* the in-session or pre-open bar b of symbol s with every Redis call succeeding
LiveInd(s, b) ==
    LET et == EtFakeUtc(b.ts)
        u  == STUpdate(Get(st_m1, s, NewST), b.open, b.high, b.low, b.close)
        e  == EMAUpdate(Get(ema_m1, s, NewEMA), b.close)
        p  == BucketPush(m5_bucket[s], LiveBarDict(s, b, et, u, e))
        m  == ProcessM5Bar(s, p.out[1], TRUE, "ok")
        push   == IsRth(et) /\ s \in DOMAIN m5_bucket
        sealed == push /\ p.out # <<>>
    IN  << Put(st_m1, s, u.st), Put(ema_m1, s, e.ema),
           IF sealed THEN m.st_m5 ELSE st_m5,
           IF sealed THEN m.ema_m5 ELSE ema_m5,
           IF push THEN [m5_bucket EXCEPT ![s] = p.bk] ELSE m5_bucket >>

\* the five-minute state machines of s after step 2 of _flush_history_for
FlushInd(s) ==
    LET last_m5 == BucketFlushCurrent(m5_bucket[s])
    IN  IF last_m5 = <<>> THEN << st_m5[s], ema_m5[s] >>
        ELSE << STUpdate(st_m5[s], last_m5[1].open, last_m5[1].high,
                         last_m5[1].low, last_m5[1].close).st,
                EMAUpdate(ema_m5[s], last_m5[1].close).ema >>

\* C23: the state machines and the bucket of a symbol are the same whether
\* the sink was available, unavailable or failing: a live bar leaves them as
\* it does with every Redis call succeeding, and a flush that goes on to the
\* subscription without the writes leaves the five-minute state machines as
\* the force-seal of the open bucket would.
C23_SinkLeavesStateUnaffected ==
    [][/\ \A s \in Symbols :
            (Grew(fed1[s], fed1'[s]) /\ fed1'[s][Len(fed1'[s])].live) =>
               \E k \in 1..Len(Slots) :
                  /\ EtFakeUtc(TsOf(SessionDay, k)) = fed1'[s][Len(fed1'[s])].time
                  /\ indVars' = LiveInd(s, LiveBar(SessionDay, k, LiveShape(bar_count)))
       /\ \A t \in TimerIds :
            (timers[t].pc = "set" /\ timers'[t].pc = "sub"
               /\ timers[t].sym \in DOMAIN m5_bucket) =>
               << st_m5'[timers[t].sym], ema_m5'[timers[t].sym] >>
                  = FlushInd(timers[t].sym)]_vars

\* the minute bucket of a quote tick at ts
TickMinute(ts) == EtFakeUtc(ts) - (EtFakeUtc(ts) % 60)

\* the step is on_quote_tick for a tick of s in the minute of slot k with
\* mid price `mid`
TickStep(s, k, mid) ==
    /\ k >= live_slot[s]
    /\ k >= hist_slot[s]
    /\ \E ok \in BOOLEAN : OnQuoteTick(s, TsOf(SessionDay, k) + TickOffset, mid, ok)

\* C24: after every tick the preview bar's time is the minute bucket of that
\* tick, and the first tick of a new minute re-seeds open = high = low =
\* close = price, whether or not a bar close was processed in between.
C24_PreviewKeyedByTickMinute ==
    [][\A s \in Symbols, k \in TickSlots, mid \in TickMids :
         TickStep(s, k, mid) =>
            LET m   == TickMinute(TsOf(SessionDay, k) + TickOffset)
                new == cur_bar'[s][1]
            IN  /\ new.time = m
                /\ (cur_bar[s] = <<>> \/ cur_bar[s][1].time # m) =>
                      /\ new.open = mid /\ new.high = mid
                      /\ new.low = mid /\ new.close = mid]_vars

\* low <= open, close <= high in a preview bar
PreviewOrdered(b) ==
    /\ b.low <= b.open /\ b.open <= b.high
    /\ b.low <= b.close /\ b.close <= b.high

\* C25: a tick after the seeding tick of a preview bar leaves open and time
\* unchanged, sets close to the price, high to the maximum of the old high
\* and the price and low to the minimum of the old low and the price; every
\* published preview bar has low <= open, close <= high.
C25_PreviewUpdate ==
    [][\A s \in Symbols :
         /\ \A k \in TickSlots, mid \in TickMids :
               (TickStep(s, k, mid) /\ cur_bar[s] # <<>>) =>
                  /\ cur_bar'[s][1].open  = cur_bar[s][1].open
                  /\ cur_bar'[s][1].time  = cur_bar[s][1].time
                  /\ cur_bar'[s][1].close = mid
                  /\ cur_bar'[s][1].high  = Max2(cur_bar[s][1].high, mid)
                  /\ cur_bar'[s][1].low   = Min2(cur_bar[s][1].low, mid)
         /\ tick_pub'[s] # <<>> => PreviewOrdered(tick_pub'[s][1])]_vars

\* C25 witness: a preview bar seeded by one tick and moved by a later tick
\* of another price was published
C25_Witness ==
    /\ tick_pub["A"] # <<>>
    /\ tick_pub["A"][1].open # tick_pub["A"][1].close
    /\ tick_pub["A"][1].low < tick_pub["A"][1].high

\* C26: after on_bar is invoked for a symbol with the live bar of the preview
\* bar's minute, whatever the bar's time of day, the symbol's preview bar is
\* empty.
C26_PreviewDiscardedOnClose ==
    [][\A s \in Symbols, k \in 1..Len(Slots), r1 \in RedisOutcomes,
          r5 \in RedisOutcomes :
         (/\ OnBar(s, SessionDay, k, r1, r5)
          /\ cur_bar[s] # <<>>
          /\ cur_bar[s][1].time = EtFakeUtc(TsOf(SessionDay, k)))
            => cur_bar'[s] = <<>>]_vars

\* C27: an on_quote_tick call leaves every symbol's state machines, bucket,
\* historical buffers, flushed flag and stored series unchanged; it changes
\* only that symbol's preview bar and what the preview channel carries.
C27_TickLeavesDurableState ==
    [][\A s \in Symbols, k \in TickSlots, mid \in TickMids :
         TickStep(s, k, mid) =>
            /\ UNCHANGED << indVars, histVars, hist_flushed, store1, store5,
                            chan1, chan5 >>
            /\ \A o \in Symbols \ {s} :
                  cur_bar'[o] = cur_bar[o] /\ tick_pub'[o] = tick_pub[o]]_vars

\* C27 witness: a tick was published for a symbol whose state machines have
\* been fed and whose history was flushed and stored
C27_Witness ==
    /\ tick_pub["A"] # <<>>
    /\ Get(hist_flushed, "A", FALSE)
    /\ "A" \in DOMAIN st_m1 /\ st_m1["A"].atr.count > 0
    /\ m5_bucket["A"].bars # <<>>
    /\ store1["A"] # StaleSeries

\* what the strategy holds for the symbol o in memory and in the store
SymbolState(o) ==
    << Get(st_m1, o, <<>>), Get(ema_m1, o, <<>>), Get(st_m5, o, <<>>),
       Get(ema_m5, o, <<>>), Get(m5_bucket, o, <<>>), Get(hist_m1, o, <<>>),
       Get(hist_m5, o, <<>>), Get(hist_flushed, o, FALSE), cur_bar[o],
       store1[o], store5[o] >>

\* C28: a historical bar, live bar, tick or flush step for one symbol, also
\* one that fails on the sink, leaves the state machines, bucket, buffers,
\* flushed flag, preview bar and stored series of every other symbol
\* unchanged.
C28_SymbolsIndependent ==
    [][started =>
         \E s \in Symbols :
            \A o \in Symbols \ {s} : SymbolState(o)' = SymbolState(o)]_vars

\* C28 witness: a live bar of A was processed and its write or publish
\* failed; the live bar delivered after it, of B, was stored and published
C28_Witness ==
    /\ \E i \in 1..Len(fed1["A"]) : fed1["A"][i].live /\ IsRth(fed1["A"][i].time)
    /\ chan1["A"] = <<>>
    /\ Len(chan1["B"]) = 1
    /\ chan1["B"][1].close = Shapes[LiveShape(1)].close
    /\ store1["B"][Len(store1["B"])] = chan1["B"][1]

\* C29: after on_stop no flush for any symbol executes: no timer step, no
\* series write and no live subscription happens once the strategy has
\* stopped.
C29_NoFlushAfterStop ==
    [][stopped => UNCHANGED << timers, hist_flushed, store1, store5, calls,
                               bar_subs >>]_vars

\* the state machine new is old or old after one more update
OneUpdate(old_n, new_n, old, new) ==
    IF new = old THEN TRUE ELSE new_n = old_n + 1

\* C30: once on_start has created a symbol's state machines and bucket, no
\* step replaces one of them with a fresh one: each stays in its dict, a
\* state machine changes only by one more update on top of those it has had,
\* and a bucket that has been pushed to never is the initial bucket again.
C30_NeverReset ==
    [][started =>
         \A s \in DOMAIN st_m1 :
            /\ s \in DOMAIN st_m1' /\ s \in DOMAIN ema_m1'
            /\ s \in DOMAIN st_m5' /\ s \in DOMAIN ema_m5'
            /\ s \in DOMAIN m5_bucket'
            /\ OneUpdate(st_m1[s].atr.count, st_m1'[s].atr.count, st_m1[s], st_m1'[s])
            /\ OneUpdate(ema_m1[s].count, ema_m1'[s].count, ema_m1[s], ema_m1'[s])
            /\ OneUpdate(st_m5[s].atr.count, st_m5'[s].atr.count, st_m5[s], st_m5'[s])
            /\ OneUpdate(ema_m5[s].count, ema_m5'[s].count, ema_m5[s], ema_m5'[s])
            /\ m5_bucket'[s] = NewBucket => m5_bucket[s] = NewBucket]_vars

\* C30 witness: the state machines of A were fed by the history and the
\* flush and then by a live bar that sealed a five-minute bar
C30_Witness ==
    /\ "A" \in DOMAIN st_m1
    /\ \E i \in 1..Len(fed1["A"]) : fed1["A"][i].live
    /\ \E i \in 1..Len(sealed5["A"]) : sealed5["A"][i].by = "live"
    /\ st_m1["A"].atr.count >= 2
    /\ st_m5["A"].atr.count >= 2

FlushEnded(s) ==
    \E t \in DOMAIN timers : timers[t].sym = s /\ timers[t].pc = "done"

\* C32: in backtest mode neither quote ticks nor live bars are ever
\* subscribed, for any symbol; in live mode the live bars of a symbol are
\* subscribed exactly once, at the end of that symbol's flush.
C32_BacktestSubscribesNothing ==
    \A s \in Symbols :
       /\ config.backtest_mode => tick_subs[s] = 0 /\ bar_subs[s] = 0
       /\ ~config.backtest_mode =>
             /\ bar_subs[s] <= 1
             /\ bar_subs[s] = 1 <=> FlushEnded(s)

\* C33: every symbol whose state machines on_start has created is eventually
\* flushed: its flushed flag becomes true and, in live mode, its live bars
\* are subscribed, whatever history arrived and whether or not Redis is there.
C33_EventuallyFlushed ==
    \A s \in Symbols :
       (started /\ s \in DOMAIN st_m1)
          ~> (Flushed(s) /\ (~config.backtest_mode => bar_subs[s] > 0))

\* C33 witness: a symbol was flushed and subscribed with no historical bar
\* received and no Redis connection
C33_Witness ==
    /\ started /\ ~redis /\ ~config.backtest_mode
    /\ Get(hist_m1, "A", <<>>) = <<>>
    /\ Flushed("A")
    /\ bar_subs["A"] > 0

\* the timestamps of a series are strictly increasing
StrictlyIncreasing(seq) ==
    \A i \in 1..(Len(seq) - 1) : seq[i].time < seq[i + 1].time

\* C34: with historical bars of strictly increasing timestamps and live bars
\* not older than the earlier bars of the symbol, the stored one-minute series
\* has strictly increasing timestamps after any sequence of flush and
\* live-bar operations, failed writes included.
C34_StoredSeriesIncreasing ==
    \A s \in Symbols : StrictlyIncreasing(store1[s])

\* C34 witness: the flush stored a historical bar, the write of a live bar
\* failed, and the live bar delivered again with the same timestamp was stored
C34_Witness ==
    /\ Len(store1["A"]) = 2
    /\ "symbol" \notin DOMAIN store1["A"][1]
    /\ "symbol" \in DOMAIN store1["A"][2]
    /\ Len(chan1["A"]) = 1
    /\ Cardinality({i \in 1..Len(fed1["A"]) :
                       fed1["A"][i].live /\ fed1["A"][i].time = store1["A"][2].time}) = 2

\* no entry of the series was under the key before the session started
NoStale(seq) ==
    \A i \in 1..Len(seq) :
       \A j \in 1..Len(StaleFull) : seq[i] # StaleSeries[1] /\ seq[i] # StaleFull[j]

\* C35: after a symbol's flush with Redis available, the stored one-minute
\* and five-minute series hold only bars of the current session: what the
\* keys held before the session has been overwritten, also when no
\* historical bar was received before the flush.  (A key whose write was
\* issued and may have raised is not judged.)
C35_FlushOverwritesStale ==
    \A s \in Symbols :
       (redis /\ FlushEnded(s)) =>
          /\ NoStale(store1[s]) \/ calls[s].set1 > 0
          /\ NoStale(store5[s]) \/ calls[s].set5 > 0

\* the members of a bucket with, per timestamp, only the last one delivered
RECURSIVE KeepLast(_)
KeepLast(bars) ==
    IF bars = <<>> THEN <<>>
    ELSE IF \E j \in 2..Len(bars) : bars[j].time = Head(bars).time
         THEN KeepLast(Tail(bars))
         ELSE <<Head(bars)>> \o KeepLast(Tail(bars))

\* the only repeated timestamps delivered for s are live corrections
OnlyLiveRepeats(s) ==
    \A i, j \in 1..Len(fed1[s]) :
       fed1[s][i].time = fed1[s][j].time => fed1[s][i].live = fed1[s][j].live

\* C36: when a live one-minute bar repeats the timestamp of the previous
\* live bar, the open bucket holds each one-minute timestamp once: the
\* five-minute bar sealed from it has the volume summed over the distinct
\* timestamps, with the corrected bar, and the bucket has at most five members.
C36_BucketCountsTimestampOnce ==
    \A s \in DOMAIN m5_bucket :
       LET bars == m5_bucket[s].bars
       IN  (OnlyLiveRepeats(s) /\ bars # <<>>) =>
              /\ Len(bars) <= 5
              /\ BucketFlush(bars).volume = BucketFlush(KeepLast(bars)).volume

----------------------------------------------------------------------------
(* The state machines with the default st_period *)

\* BarLoggerStrategyConfig.st_period, the default
StPeriodDefault == 10

\* the bars of a backfill under the default period
MaxBand == 12

\* AverageTrueRange(period, WILDER).update_raw
AtrUpdateRawAt(period, a, h, lo, c) ==
    LET pc == IF a.count = 0 THEN c ELSE a.prev_close
        tr == Max2(pc, h) - Min2(lo, pc)
        v0 == IF a.count = 0 THEN tr ELSE a.value
    IN  [value      |-> (tr + (period - 1) * v0) \div period,
         count      |-> a.count + 1,
         prev_close |-> c]

\* a mutant of _STState.update: the value is taken from the other band
STUpdateAtOtherBand(period, st, o, h, lo, c) ==
    LET atr == AtrUpdateRawAt(period, st.atr, h, lo, c) IN
    IF ~(atr.count >= period)
    THEN [st  |-> [st EXCEPT !.atr = atr, !.prev_close = c],
          val |-> 0, dir |-> 1, upper |-> 0, lower |-> 0]
    ELSE
      LET hl2         == (h + lo) \div 2
          basic_upper == hl2 + StMult * atr.value
          basic_lower == hl2 - StMult * atr.value
          upper_b == IF ~st.initialized THEN basic_upper
                     ELSE IF basic_upper < st.prev_upper_b
                             \/ st.prev_close > st.prev_upper_b
                          THEN basic_upper ELSE st.prev_upper_b
          lower_b == IF ~st.initialized THEN basic_lower
                     ELSE IF basic_lower > st.prev_lower_b
                             \/ st.prev_close < st.prev_lower_b
                          THEN basic_lower ELSE st.prev_lower_b
          st_dir  == IF st.prev_dir = -1 /\ c > upper_b THEN 1
                     ELSE IF st.prev_dir = 1 /\ c < lower_b THEN -1
                     ELSE st.prev_dir
          st_val  == IF st_dir = 1 THEN upper_b ELSE lower_b
      IN [st  |-> [atr          |-> atr,
                   prev_close   |-> c,
                   prev_upper_b |-> upper_b,
                   prev_lower_b |-> lower_b,
                   prev_dir     |-> st_dir,
                   initialized  |-> TRUE],
          val |-> st_val, dir |-> st_dir, upper |-> upper_b, lower |-> lower_b]

\* _STState(period, StMult).update: the new state and the tuple it returns
STUpdateAt(period, st, o, h, lo, c) ==
    LET atr == AtrUpdateRawAt(period, st.atr, h, lo, c) IN
    IF ~(atr.count >= period)
    THEN [st  |-> [st EXCEPT !.atr = atr, !.prev_close = c],
          val |-> 0, dir |-> 1, upper |-> 0, lower |-> 0]
    ELSE
      LET hl2         == (h + lo) \div 2
          basic_upper == hl2 + StMult * atr.value
          basic_lower == hl2 - StMult * atr.value
          upper_b == IF ~st.initialized THEN basic_upper
                     ELSE IF basic_upper < st.prev_upper_b
                             \/ st.prev_close > st.prev_upper_b
                          THEN basic_upper ELSE st.prev_upper_b
          lower_b == IF ~st.initialized THEN basic_lower
                     ELSE IF basic_lower > st.prev_lower_b
                             \/ st.prev_close < st.prev_lower_b
                          THEN basic_lower ELSE st.prev_lower_b
          st_dir  == IF st.prev_dir = -1 /\ c > upper_b THEN 1
                     ELSE IF st.prev_dir = 1 /\ c < lower_b THEN -1
                     ELSE st.prev_dir
          st_val  == IF st_dir = 1 THEN lower_b ELSE upper_b
      IN [st  |-> [atr          |-> atr,
                   prev_close   |-> c,
                   prev_upper_b |-> upper_b,
                   prev_lower_b |-> lower_b,
                   prev_dir     |-> st_dir,
                   initialized  |-> TRUE],
          val |-> st_val, dir |-> st_dir, upper |-> upper_b, lower |-> lower_b]

\* prices and volume of the bars of the backfill: a quiet bar and a bar of
\* wide range that closes a little lower
BandShapes ==
    << [open |-> 1000, high |-> 1010, low |-> 990, close |-> 1000, volume |-> 5],
       [open |-> 1000, high |-> 1010, low |-> 10,  close |-> 950,  volume |-> 30] >>

\* the n-th bar of the backfill (one per minute from 09:30:00) with shape j
BandBar(n, j) ==
    [ts |-> SessionDay * 86400 + HMS(9, 30, 0) + 60 * n - UtcOffset(0),
     open |-> BandShapes[j].open, high |-> BandShapes[j].high,
     low |-> BandShapes[j].low, close |-> BandShapes[j].close,
     volume |-> BandShapes[j].volume]

\* on_historical_data for the bar b of symbol s, start to end, with state
\* machines of the default period
BackfillDefault(s, b) ==
    /\ started
    /\ ~stopped
    /\ s \in DOMAIN bar_types
    /\ ~Get(hist_flushed, s, FALSE)
    /\ Len(Get(hist_m1, s, <<>>)) < lim.hist
    /\ LET buf == Get(hist_m1, s, <<>>)
           et  == EtFakeUtc(b.ts)
           u   == STUpdateAt(StPeriodDefault, st_m1[s], b.open, b.high, b.low, b.close)
           e   == EMAUpdate(ema_m1[s], b.close)
           bar_dict == HistBarDict(b, et, u, e)
           p   == BucketPush(m5_bucket[s], bar_dict)
       IN  /\ buf # <<>> => buf[Len(buf)].time < et
           /\ st_m1'  = [st_m1 EXCEPT ![s] = u.st]
           /\ ema_m1' = [ema_m1 EXCEPT ![s] = e.ema]
           /\ hist_m1' = Put(hist_m1, s, Append(buf, bar_dict))
           /\ fed1' = [fed1 EXCEPT ![s] = Append(@, [time |-> et, live |-> FALSE])]
           /\ m5_bucket' = [m5_bucket EXCEPT ![s] = p.bk]
           /\ IF p.out # <<>>
              THEN LET m5_out == p.out[1]
                       u5 == STUpdateAt(StPeriodDefault, st_m5[s], m5_out.open,
                                        m5_out.high, m5_out.low, m5_out.close)
                       e5 == EMAUpdate(ema_m5[s], m5_out.close)
                   IN  /\ st_m5'  = [st_m5 EXCEPT ![s] = u5.st]
                       /\ ema_m5' = [ema_m5 EXCEPT ![s] = e5.ema]
                       /\ hist_m5' = Put(hist_m5, s,
                                         Append(Get(hist_m5, s, <<>>),
                                                M5BarDict(m5_out, u5, e5)))
                       /\ sealed5' = [sealed5 EXCEPT ![s] =
                                         Append(@, [key |-> m5_out.time, by |-> "hist"])]
              ELSE UNCHANGED << st_m5, ema_m5, hist_m5, sealed5 >>
    /\ UNCHANGED << cfgVars, actorVars, liveVars, sinkVars, envVars, tickVars, hist_flushed,
                    bar_subs, timers, eng >>

InitBand ==
    /\ config = [instrument_id |-> "A.X", instrument_ids |-> <<>>,
                 backtest_mode |-> TRUE]
    /\ lim = [hist |-> MaxBand, live |-> 0]
    /\ store1 = [s \in Symbols |-> StaleSeries]
    /\ store5 = [s \in Symbols |-> StaleSeries]
    /\ InitRest

NextBand ==
    \/ OnStart
    \/ \E s \in Symbols, j \in 1..Len(BandShapes) :
          BackfillDefault(s, BandBar(Len(Get(hist_m1, s, <<>>)), j))

SpecBand == InitBand /\ [][NextBand]_vars

\* C37: the reported trend value lies on the protective side of price: for
\* every update of an initialized range (the st_period-th bar and later),
\* direction +1 comes with a value not above the bar's close and direction
\* -1 with a value not below it.
C37_ValueOnProtectiveSide ==
    \A s \in Symbols :
       \A i \in 1..Len(Emitted1(s)) :
          i >= StPeriodDefault =>
             /\ Emitted1(s)[i].st_dir = 1  => Emitted1(s)[i].st_value <= Emitted1(s)[i].close
             /\ Emitted1(s)[i].st_dir = -1 => Emitted1(s)[i].st_value >= Emitted1(s)[i].close

\* the value of the i-th emitted bar is on the protective side of its close
Protective(seq, i) ==
    /\ seq[i].st_dir = 1  => seq[i].st_value <= seq[i].close
    /\ seq[i].st_dir = -1 => seq[i].st_value >= seq[i].close

\* C37 as amended: for every update of an initialized range that keeps the
\* direction of the update before it, the value is on the protective side
\* of the bar's close; an update that flips the direction reports the
\* opposite band, which may lie on either side.
C37_ProtectiveWhenDirectionKept ==
    \A s \in Symbols :
       \A i \in 1..Len(Emitted1(s)) :
          (i >= StPeriodDefault /\ Emitted1(s)[i].st_dir = PrevDir(Emitted1(s), i))
             => Protective(Emitted1(s), i)

\* a flip to -1 with the value below the close, then an update that keeps
\* -1 with the value above the close
C37_Witness ==
    /\ Len(Emitted1("A")) = StPeriodDefault + 2
    /\ Emitted1("A")[StPeriodDefault + 1].st_dir = -1
    /\ ~Protective(Emitted1("A"), StPeriodDefault + 1)
    /\ Emitted1("A")[StPeriodDefault + 2].st_dir = -1
    /\ Emitted1("A")[StPeriodDefault + 2].st_value > Emitted1("A")[StPeriodDefault + 2].close

----------------------------------------------------------------------------
(* ExitManager beside the strategy *)

\* positions the cache holds open at a time
MaxPositions == 1

strategyVars == << cfgVars, indVars, histVars, liveVars, sinkVars, envVars, tickVars,
                   hist_flushed, bar_subs, timers, eng, fed1, sealed5 >>

\* ExitManager.on_start: the two subscriptions
ExitOnStart ==
    /\ ~exit_started
    /\ exit_started' = TRUE
    /\ UNCHANGED << strategyVars, gwVars, st_trail_active, positions, exit_orders >>

\* ExitManager._on_settings_change
OnSettingsChange(sym, active) ==
    /\ exit_started
    /\ st_trail_active' = Put(st_trail_active, sym, active)
    /\ UNCHANGED << strategyVars, gwVars, exit_started, positions, exit_orders >>

\* a position of the instrument opens (an entry order is filled)
PositionOpened(iid, is_long) ==
    /\ Cardinality(positions) < MaxPositions
    /\ [instrument_id |-> iid, is_long |-> is_long] \notin positions
    /\ positions' = positions \cup {[instrument_id |-> iid, is_long |-> is_long]}
    /\ UNCHANGED << strategyVars, gwVars, exit_started, st_trail_active, exit_orders >>

\* the two-symbol live run with ExitManager: per symbol a historical bar of
\* 09:30, the flush and live bars of 09:31; the settings and the positions
\* change at any moment
NextExit ==
    \/ OnStart
    \/ \E s \in Symbols : OnHistoricalData(s, PairHistSlot)
    \/ OnHistoricalDataM5
    \/ \E t \in TimerIds : FlushCheck(t)
    \/ \E t \in TimerIds : FlushSet(t)
    \/ \E t \in TimerIds : FlushM1(t)
    \/ \E t \in TimerIds : FlushSeal(t)
    \/ \E t \in TimerIds : FlushM5Write(t)
    \/ \E t \in TimerIds : FlushSub(t)
    \/ \E s \in Symbols : OnBar(s, SessionDay, PairLiveSlot, "ok", "ok")
    \/ ExitOnStart
    \/ \E s \in Symbols, active \in BOOLEAN : OnSettingsChange(s, active)
    \/ \E iid \in {"A.X", "B.X"}, is_long \in BOOLEAN : PositionOpened(iid, is_long)

SpecExit == InitPair /\ [][NextExit]_vars

\* C38: the bar.collected event of a live bar of symbol S names S's own
\* instrument, so every close order ExitManager submits because of a bar
\* closes a position of the instrument that bar belongs to, for every
\* subscribed symbol.
C38_EventNamesOwnInstrument ==
    \A i \in 1..Len(exit_orders) :
       /\ exit_orders[i].bar.instrument_id = bar_types[exit_orders[i].symbol]
       /\ exit_orders[i].instrument_id = bar_types[exit_orders[i].symbol]

\* the indicator fields of a bar dict are the warm-up placeholder
IsPlaceholder(bar) ==
    bar.st_value = 0 /\ bar.st_dir = 1 /\ bar.st_upper = 0 /\ bar.st_lower = 0

\* C39: ExitManager submits no close order because of a bar whose trend
\* fields are the warm-up placeholder, for a long or a short position of
\* the bar's own instrument with trailing exit enabled.
C39_NoExitOnPlaceholder ==
    \A i \in 1..Len(exit_orders) :
       exit_orders[i].instrument_id = bar_types[exit_orders[i].symbol]
          => ~IsPlaceholder(exit_orders[i].bar)

----------------------------------------------------------------------------
(* OrderGatewayActor: the scheduled stop-loss modifications *)

\* bracket orders commanded in a run, and the seconds the clock runs
MaxBrackets == 2
MaxClock == 3

\* sl_steps and sl_step_secs of the commands
StepLists == { <<>>, <<602>>, <<602, 603>> }
StepSecs == {-1, 0, 1}

\* a mutant of the delay of on_external_order_command: the last step first
StepDelayReversed(secs, i, n) == secs * (n - i + 1)

\* delay = event.sl_step_secs * (i + 1), i counted from 1 here
StepDelay(secs, i, n) == secs * i

\* asyncio.sleep(delay) started at `at`: the time from which the task may
\* resume (a delay of zero or less only yields)
SleepUntil(at, delay) == IF delay <= 0 THEN at ELSE at + delay

\* OrderGatewayActor.on_start: the subscription
GatewayOnStart ==
    /\ gw_state = "init"
    /\ gw_state' = "running"
    /\ UNCHANGED << strategyVars, exitVars, sl_tasks, loop_tasks, cache_orders,
                    modifies, now >>

\* on_external_order_command, BRACKET branch: the stop order is submitted
\* and one task per step is created and kept in _sl_tasks
OnExternalOrderCommand(steps, secs) ==
    /\ gw_state = "running"
    /\ Cardinality(DOMAIN cache_orders) < MaxBrackets
    /\ LET sl_order_id == Cardinality(DOMAIN cache_orders) + 1
           n     == Len(steps)
           tasks == [i \in 1..n |->
                       [sl_order_id |-> sl_order_id,
                        step_index  |-> i,
                        new_trigger_price |-> steps[i],
                        until       |-> SleepUntil(now, StepDelay(secs, i, n)),
                        state       |-> "sleeping"]]
       IN  /\ cache_orders' = Put(cache_orders, sl_order_id, "submitted")
           /\ loop_tasks' = loop_tasks \o tasks
           /\ sl_tasks' = sl_tasks \o [i \in 1..n |-> Len(loop_tasks) + i]
    /\ UNCHANGED << strategyVars, exitVars, gw_state, modifies, now >>

\* the event loop resumes sleeping tasks whose time has come in the order of
\* their times, and tasks that only yielded in the order of their creation
MayResume(i) ==
    /\ loop_tasks[i].state = "sleeping"
    /\ loop_tasks[i].until <= now
    /\ \A j \in 1..Len(loop_tasks) :
          (/\ loop_tasks[j].state = "sleeping"
           /\ loop_tasks[j].sl_order_id = loop_tasks[i].sl_order_id)
             => \/ loop_tasks[j].until > loop_tasks[i].until
                \/ (loop_tasks[j].until = loop_tasks[i].until /\ j >= i)

\* a mutant of _schedule_sl_modify: the order's state is not looked at
ScheduleSlModifyBlind(i) ==
    /\ MayResume(i)
    /\ loop_tasks' = [loop_tasks EXCEPT ![i].state = "done"]
    /\ modifies' = Append(modifies,
                          [sl_order_id |-> loop_tasks[i].sl_order_id,
                           step_index  |-> loop_tasks[i].step_index,
                           trigger_price |-> loop_tasks[i].new_trigger_price])
    /\ UNCHANGED << strategyVars, exitVars, gw_state, sl_tasks, cache_orders, now >>

\* _schedule_sl_modify after its sleep: the order is looked up and, when it
\* is in the cache and open, modified
ScheduleSlModify(i) ==
    /\ MayResume(i)
    /\ loop_tasks' = [loop_tasks EXCEPT ![i].state = "done"]
    /\ LET status == cache_orders[loop_tasks[i].sl_order_id]
       IN  modifies' =
              IF status = "purged" \/ status # "open" THEN modifies
              ELSE Append(modifies,
                          [sl_order_id |-> loop_tasks[i].sl_order_id,
                           step_index  |-> loop_tasks[i].step_index,
                           trigger_price |-> loop_tasks[i].new_trigger_price])
    /\ UNCHANGED << strategyVars, exitVars, gw_state, sl_tasks, cache_orders, now >>

\* the venue accepts the stop order, or closes it (filled, canceled,
\* rejected), or the cache purges the closed order
OrderEvent(id, status) ==
    /\ id \in DOMAIN cache_orders
    /\ \/ cache_orders[id] = "submitted" /\ status \in {"open", "closed"}
       \/ cache_orders[id] = "open" /\ status = "closed"
       \/ cache_orders[id] = "closed" /\ status = "purged"
    /\ cache_orders' = [cache_orders EXCEPT ![id] = status]
    /\ UNCHANGED << strategyVars, exitVars, gw_state, sl_tasks, loop_tasks,
                    modifies, now >>

\* a second passes
ClockTick ==
    /\ now < MaxClock
    /\ now' = now + 1
    /\ UNCHANGED << strategyVars, exitVars, gw_state, sl_tasks, loop_tasks,
                    cache_orders, modifies >>

\* a mutant of on_stop: the tasks are left to run
GatewayOnStopNoCancel ==
    /\ gw_state = "running"
    /\ gw_state' = "stopped"
    /\ sl_tasks' = <<>>
    /\ UNCHANGED << strategyVars, exitVars, loop_tasks, cache_orders, modifies, now >>

\* OrderGatewayActor.on_stop: unsubscribe, cancel the tasks of _sl_tasks
\* that are not done, clear the list
GatewayOnStop ==
    /\ gw_state = "running"
    /\ gw_state' = "stopped"
    /\ loop_tasks' = [i \in 1..Len(loop_tasks) |->
                        IF (\E k \in 1..Len(sl_tasks) : sl_tasks[k] = i)
                           /\ loop_tasks[i].state # "done"
                        THEN [loop_tasks[i] EXCEPT !.state = "cancelled"]
                        ELSE loop_tasks[i]]
    /\ sl_tasks' = <<>>
    /\ UNCHANGED << strategyVars, exitVars, cache_orders, modifies, now >>

NextGateway ==
    \/ GatewayOnStart
    \/ \E steps \in StepLists, secs \in StepSecs : OnExternalOrderCommand(steps, secs)
    \/ \E i \in 1..Len(loop_tasks) : ScheduleSlModify(i)
    \/ \E id \in 1..MaxBrackets, status \in {"open", "closed", "purged"} :
          OrderEvent(id, status)
    \/ ClockTick
    \/ GatewayOnStop

SpecGateway == InitTick /\ [][NextGateway]_vars

\* the modify requests of one stop order come in the order of its steps
ModifiesInStepOrder ==
    \A i, j \in 1..Len(modifies) :
       (i < j /\ modifies[i].sl_order_id = modifies[j].sl_order_id)
          => modifies[i].step_index < modifies[j].step_index

\* C40: a scheduled stop-loss modification issues a modify request only if,
\* when its delay has elapsed, the gateway has not been stopped and the stop
\* order is in the cache and open; after on_stop no pending modification
\* fires; the modifications of one bracket order fire in the order of sl_steps.
C40_ModifyOnlyWhenRunningAndOpen ==
    /\ [][modifies' # modifies =>
            LET m == modifies'[Len(modifies')]
            IN  /\ gw_state = "running"
                /\ cache_orders[m.sl_order_id] = "open"
                /\ \E i \in 1..Len(loop_tasks) :
                      /\ loop_tasks[i].sl_order_id = m.sl_order_id
                      /\ loop_tasks[i].step_index = m.step_index
                      /\ loop_tasks[i].state = "sleeping"
                      /\ loop_tasks[i].until <= now]_vars
    /\ [](gw_state = "stopped" =>
            \A i \in 1..Len(loop_tasks) : loop_tasks[i].state # "sleeping")
    /\ []ModifiesInStepOrder

\* both steps of the first bracket order have fired in order, a step of the
\* second was skipped on a closed order and another was cancelled by on_stop
C40_Witness ==
    /\ gw_state = "stopped"
    /\ Len(modifies) = 2
    /\ modifies[1].sl_order_id = 1 /\ modifies[1].step_index = 1
    /\ modifies[2].sl_order_id = 1 /\ modifies[2].step_index = 2
    /\ \E i, j \in 1..Len(loop_tasks) :
          /\ loop_tasks[i].sl_order_id = 2 /\ loop_tasks[i].state = "done"
          /\ loop_tasks[j].sl_order_id = 2 /\ loop_tasks[j].state = "cancelled"

====
